---- MODULE Spec2Model ----
(***************************************************************************)
(* A model of tinygpt.live: the scalar autograd engine (src/lib/value.ts), *)
(* and the tokenizer, the weighted sampler, the trainer and the generator  *)
(* of src/lib/gpt.ts, and the callbacks of the page's components that      *)
(* drive one shared model (src/components).                                *)
(*                                                                         *)
(* Numbers.  The code computes in IEEE doubles.  The model computes in     *)
(* exact rationals extended with +Infinity, -Infinity and NaN: a number is *)
(* a record [n, d] in lowest terms with d > 0, and d = 0 encodes the three *)
(* non-finite values (n = 1, -1, 0).  Rounding and overflow to Infinity    *)
(* are modelled in choices() only, on a scaled format; the sign of zero is *)
(* not modelled.                                                           *)
(***************************************************************************)
EXTENDS Integers, Sequences, FiniteSets, TLC

VARIABLES
  nodes,      \* value.ts: the Value objects ever constructed, by identity
  _gen,       \* value.ts:6  the module-global generation counter
  pass,       \* history: the latest backward() call, and how many there were
  built,      \* history: the operation that constructed the latest Value
  corpus,     \* gpt.ts:201  NAMES, the corpus the constructor is given
  docs,       \* gpt.ts:188  GPTModel.docs, the corpus after the shuffle
  tokenizer,  \* gpt.ts:186  GPTModel.tokenizer, NoTokenizer before it is built
  tkCall,     \* history: the latest encode()/decode() call
  rngCall,    \* history: the latest call of the generator
  rng,        \* gpt.ts:187  a MersenneTwister object (and, beside it, its reference)
  step,       \* gpt.ts:193  GPTModel.step
  ncalls,     \* history: trainStep() and generate() calls made so far
  ntrain,     \* history: trainStep() calls that returned so far
  gptCall,    \* history: the latest trainStep() or generate() call
  inst,       \* the GPTModel objects of one process, each with its call log
  ui,         \* the state and refs of TrainingStepper, TemperatureControl, TokenFlow
  eventLoop,  \* the browser's pending timeouts and animation frames, and the running callback
  model,      \* page (part_001:15): the one GPTModel the components share
  seen        \* history: what the callbacks observed of the model and of each other

adVars == <<nodes, _gen, pass, built>>
tokVars == <<corpus, docs, tokenizer, tkCall>>
rngVars == <<rngCall, rng>>
gptVars == <<step, ncalls, ntrain, gptCall>>
uiVars == <<ui, eventLoop, model, seen>>
vars == <<nodes, _gen, pass, built, corpus, docs, tokenizer, tkCall, rngCall, rng,
          step, ncalls, ntrain, gptCall, inst, ui, eventLoop, model, seen>>

---------------------------------------------------------------------------
(* Bounds of the model *)

MaxNodes == 3       \* Value objects constructed in one behaviour
MaxBackward == 2    \* backward() calls in one behaviour
AlphabetSize == 2   \* distinct characters that occur anywhere
MaxDocs == 2        \* documents of a corpus
MaxDocLen == 2      \* characters of a document
MaxStrLen == 3      \* characters of a string given to encode()
MaxWeights == 3     \* entries of a weight vector given to choices()
RandDen == 4        \* random() draws one of 0/RandDen .. (RandDen-1)/RandDen
FloatBits == 3      \* bits of the significand of a number of choices() (53 in a double)
blockSize == 3      \* the context length (16 in DEFAULT_CONFIG, gpt.ts:151)
MaxCalls == 4       \* trainStep() and generate() calls in one behaviour
MaxNumSteps == 2    \* the numSteps arguments given to trainStep(): 1..MaxNumSteps
MaxOps == 3         \* calls made on the model objects in one behaviour, all together
MaxSteps == 2       \* trainStep() calls made on one model object

---------------------------------------------------------------------------
(* Extended rational arithmetic standing for the doubles of the code *)

\* const x = e; F(x): e is evaluated once, before F
Const(e, F(_)) == CHOOSE r \in {F(x) : x \in {e}} : TRUE

Abs(x) == IF x < 0 THEN -x ELSE x

Sgn(x) == IF x < 0 THEN -1 ELSE IF x > 0 THEN 1 ELSE 0

RECURSIVE GCD(_, _)
GCD(a, b) == IF b = 0 THEN a ELSE GCD(b, a % b)

Norm(n, d) == LET g == GCD(Abs(n), d) IN [n |-> n \div g, d |-> d \div g]

R(k) == [n |-> k, d |-> 1]
Frac(a, b) == Norm(a, b)
NaN == [n |-> 0, d |-> 0]
PosInf == [n |-> 1, d |-> 0]
NegInf == [n |-> -1, d |-> 0]

IsNaN(a) == a.d = 0 /\ a.n = 0
IsInf(a) == a.d = 0 /\ a.n # 0
IsFinite(a) == a.d > 0
IsZero(a) == a.d > 0 /\ a.n = 0

\* a + b
RAdd(a, b) ==
  IF IsNaN(a) \/ IsNaN(b) THEN NaN
  ELSE IF IsInf(a) /\ IsInf(b) THEN (IF a.n = b.n THEN a ELSE NaN)
  ELSE IF IsInf(a) THEN a
  ELSE IF IsInf(b) THEN b
  ELSE LET g == GCD(a.d, b.d)
       IN Norm(a.n * (b.d \div g) + b.n * (a.d \div g), (a.d \div g) * b.d)

\* a * b
RMul(a, b) ==
  IF IsNaN(a) \/ IsNaN(b) THEN NaN
  ELSE IF IsInf(a) \/ IsInf(b)
    THEN (IF IsZero(a) \/ IsZero(b) THEN NaN
          ELSE [n |-> Sgn(a.n) * Sgn(b.n), d |-> 0])
  ELSE Norm(a.n * b.n, a.d * b.d)

\* -a
RNeg(a) == [n |-> -a.n, d |-> a.d]

\* 1 / a
RInv(a) ==
  IF IsNaN(a) THEN NaN
  ELSE IF IsInf(a) THEN R(0)
  ELSE IF a.n = 0 THEN PosInf
  ELSE Norm(Sgn(a.n) * a.d, Abs(a.n))

\* a ** k for an integer exponent k
RECURSIVE RPow(_, _)
RPow(a, k) ==
  IF k = 0 THEN R(1)
  ELSE IF k < 0 THEN RInv(RPow(a, -k))
  ELSE RMul(a, RPow(a, k - 1))

\* a > b (false when either is NaN)
RGt(a, b) ==
  /\ ~IsNaN(a)
  /\ ~IsNaN(b)
  /\ IF IsInf(a) \/ IsInf(b)
       THEN (IF IsInf(a) /\ IsInf(b) THEN a.n > b.n
             ELSE IF IsInf(a) THEN a.n > 0
             ELSE b.n < 0)
       ELSE a.n * b.d > b.n * a.d

\* Math.max(0, a)
RMax0(a) == IF IsNaN(a) THEN NaN ELSE IF RGt(a, R(0)) THEN a ELSE R(0)

---------------------------------------------------------------------------
(* value.ts: class Value.  A Value is a slot of the arena `nodes`; a child *)
(* reference is the child's slot, 0 when absent.                            *)

Value(data, children, localGrads) ==
  [ data |-> data,
    grad |-> R(0),
    c0   |-> IF Len(children) >= 1 THEN children[1] ELSE 0,
    c1   |-> IF Len(children) >= 2 THEN children[2] ELSE 0,
    lg0  |-> IF Len(localGrads) >= 1 THEN localGrads[1] ELSE R(0),
    lg1  |-> IF Len(localGrads) >= 2 THEN localGrads[2] ELSE R(0),
    nch  |-> Len(children),
    gen  |-> 0 ]

\* `new Value(...)` in arena ns: the arena with the new object in its last slot
New(ns, v) == Append(ns, v)

\* The binary operations take the arena and the operands' slots and return the
\* arena extended with the result (and with the intermediate node of sub/div).
add(ns, a, b) == New(ns, Value(RAdd(ns[a].data, ns[b].data), <<a, b>>, <<R(1), R(1)>>))

addNum(ns, a, k) == New(ns, Value(RAdd(ns[a].data, k), <<a>>, <<R(1)>>))

mul(ns, a, b) ==
  New(ns, Value(RMul(ns[a].data, ns[b].data), <<a, b>>, <<ns[b].data, ns[a].data>>))

mulNum(ns, a, k) == New(ns, Value(RMul(ns[a].data, k), <<a>>, <<k>>))

pow(ns, a, e) ==
  New(ns, Value(RPow(ns[a].data, e), <<a>>, <<RMul(R(e), RPow(ns[a].data, e - 1))>>))

relu(ns, a) ==
  New(ns, Value(RMax0(ns[a].data), <<a>>,
                <<IF RGt(ns[a].data, R(0)) THEN R(1) ELSE R(0)>>))

neg(ns, a) == New(ns, Value(RNeg(ns[a].data), <<a>>, <<R(-1)>>))

sub(ns, a, b) == LET n1 == neg(ns, b) IN add(n1, a, Len(n1))

subNum(ns, a, k) == addNum(ns, a, RNeg(k))

div(ns, a, b) == LET n1 == pow(ns, b, -1) IN mul(n1, a, Len(n1))

divNum(ns, a, k) == mulNum(ns, a, RInv(k))

---------------------------------------------------------------------------
(* value.ts:68-89  Value.backward *)

\* A pass that forgets to advance the counter
StaleGen == _gen

\* value.ts:69  const gen = ++_gen
NextGen == _gen + 1

\* A pass that never recognises a node it has already entered
NeverMarked(ns, v, gen) == FALSE

\* A mark that is a flag, set once and never cleared, instead of a pass id
MarkedByAnyPass(ns, v, gen) == ns[v].gen # 0

\* value.ts:73  v._gen === gen
Marked(ns, v, gen) == ns[v].gen = gen

\* value.ts:72-78  buildTopo.  st = [ns, topo]: the arena (whose gen marks the
\* recursion writes) and the topological order so far.
RECURSIVE buildTopo(_, _, _)
buildTopo(v, gen, st) ==
  IF Marked(st.ns, v, gen) THEN st
  ELSE Const([st EXCEPT !.ns[v].gen = gen], LAMBDA s0 :
       Const(IF s0.ns[v].nch >= 1 THEN buildTopo(s0.ns[v].c0, gen, s0) ELSE s0, LAMBDA s1 :
       Const(IF s1.ns[v].nch = 2 THEN buildTopo(s1.ns[v].c1, gen, s1) ELSE s1, LAMBDA s2 :
         [s2 EXCEPT !.topo = Append(s2.topo, v)])))

\* A pass that clears every gradient before it seeds the root
seedAfterReset(ns, root) ==
  [i \in 1..Len(ns) |-> [ns[i] EXCEPT !.grad = IF i = root THEN R(1) ELSE R(0)]]

\* value.ts:81  this.grad = 1
seedRoot(ns, root) == [ns EXCEPT ![root].grad = R(1)]

\* value.ts:84-87  one iteration of the loop, for v = topo[i]
propagateOne(ns, v) ==
  LET g  == ns[v].grad
      n1 == IF ns[v].nch >= 1
              THEN [ns EXCEPT ![ns[v].c0].grad = RAdd(@, RMul(ns[v].lg0, g))]
              ELSE ns
      n2 == IF ns[v].nch = 2
              THEN [n1 EXCEPT ![ns[v].c1].grad = RAdd(@, RMul(ns[v].lg1, g))]
              ELSE n1
  IN n2

\* value.ts:83-88  for (i = topo.length - 1; i >= 0; --i); i is 1-based here
RECURSIVE propagate(_, _, _)
propagate(ns, topo, i) ==
  IF i < 1 THEN ns
  ELSE Const(propagateOne(ns, topo[i]), LAMBDA n1 : propagate(n1, topo, i - 1))

\* value.ts:68-89  the whole of backward(): the arena after the pass and the
\* topological order the pass built
backward(ns, root, gen) ==
  Const(buildTopo(root, gen, [ns |-> ns, topo |-> <<>>]), LAMBDA st :
  Const(seedRoot(st.ns, root), LAMBDA seeded :
    [ns |-> propagate(seeded, st.topo, Len(st.topo)), topo |-> st.topo]))

---------------------------------------------------------------------------
(* gpt.ts:571-594  backward() of the engine kept in gpt.ts, which collects  *)
(* the nodes it has entered in a Set instead of marking them with a pass id *)

\* gpt.ts:575-583  buildTopo.  st = [visited, topo]
RECURSIVE buildTopoVisited(_, _, _)
buildTopoVisited(ns, v, st) ==
  IF v \in st.visited THEN st
  ELSE Const([st EXCEPT !.visited = @ \cup {v}], LAMBDA s0 :
       Const(IF ns[v].nch >= 1 THEN buildTopoVisited(ns, ns[v].c0, s0) ELSE s0, LAMBDA s1 :
       Const(IF ns[v].nch = 2 THEN buildTopoVisited(ns, ns[v].c1, s1) ELSE s1, LAMBDA s2 :
         [s2 EXCEPT !.topo = Append(s2.topo, v)])))

\* gpt.ts:571-594  the whole of backward(): `this.grad = 1`, then the loop
\* over topo from its end, which is the loop of value.ts:83-88
backwardVisited(ns, root) ==
  Const(buildTopoVisited(ns, root, [visited |-> {}, topo |-> <<>>]), LAMBDA st :
  Const([ns EXCEPT ![root].grad = R(1)], LAMBDA seeded :
    [ns |-> propagate(seeded, st.topo, Len(st.topo)), topo |-> st.topo]))

---------------------------------------------------------------------------
(* gpt.ts:105-133  the tokenizer.  A character is its rank 1..AlphabetSize  *)
(* in the order Array.prototype.sort compares one-character strings; a      *)
(* string is a sequence of characters.                                      *)

Alphabet == 1..AlphabetSize

Range(seq) == {seq[i] : i \in 1..Len(seq)}

\* Set.prototype.add on a Set kept in insertion order
SetAdd(set, ch) == IF ch \in Range(set) THEN set ELSE Append(set, ch)

\* gpt.ts:118  for (const ch of doc) charSet.add(ch)
RECURSIVE AddChars(_, _, _)
AddChars(set, doc, i) ==
  IF i > Len(doc) THEN set ELSE AddChars(SetAdd(set, doc[i]), doc, i + 1)

\* gpt.ts:116-119  the Set of the corpus's characters, in insertion order
RECURSIVE CharSet(_, _, _)
CharSet(set, ds, i) ==
  IF i > Len(ds) THEN set ELSE CharSet(AddChars(set, ds[i], 1), ds, i + 1)

\* A tokenizer that keeps the characters in the order the corpus showed them
Unsorted(seq) == seq

\* gpt.ts:120  [...charSet].sort()
RECURSIVE Sort(_)
Sort(seq) ==
  IF seq = <<>> THEN <<>>
  ELSE LET m == CHOOSE x \in Range(seq) : \A y \in Range(seq) : x <= y
           rest == SelectSeq(seq, LAMBDA y : y # m)
           ms == SelectSeq(seq, LAMBDA y : y = m)
       IN ms \o Sort(rest)

\* What Map.prototype.get gives for a key the Map does not hold; also the
\* element of an array at an index it does not have
Undefined == -1

\* A lookup that is off by one
CharToIdOneBased(uchars) ==
  [ch \in Range(uchars) |-> CHOOSE i \in 1..Len(uchars) : uchars[i] = ch]

\* gpt.ts:121  new Map(uchars.map((ch, i) => [ch, i]))
CharToId(uchars) ==
  [ch \in Range(uchars) |-> (CHOOSE i \in 1..Len(uchars) : uchars[i] = ch) - 1]

\* gpt.ts:115-133  createTokenizer
createTokenizer(ds) ==
  LET uchars == Sort(CharSet(<<>>, ds, 1))
  IN [ uchars    |-> uchars,
       charToId  |-> CharToId(uchars),
       BOS       |-> Len(uchars),
       vocabSize |-> Len(uchars) + 1 ]

\* charToId.get(ch)
MapGet(tk, ch) == IF ch \in DOMAIN tk.charToId THEN tk.charToId[ch] ELSE Undefined

\* gpt.ts:129  encode
encode(tk, s) ==
  <<tk.BOS>> \o [i \in 1..Len(s) |-> MapGet(tk, s[i])] \o <<tk.BOS>>

\* uchars[id]
At(uchars, id) == IF id >= 0 /\ id < Len(uchars) THEN uchars[id + 1] ELSE Undefined

\* Array.prototype.join(""): an undefined element joins as the empty string
Join(elems) == SelectSeq(elems, LAMBDA c : c # Undefined)

\* gpt.ts:130  decode
decode(tk, ids) ==
  LET kept == SelectSeq(ids, LAMBDA id : id # tk.BOS)
  IN Join([i \in 1..Len(kept) |-> At(tk.uchars, kept[i])])

\* gpt.ts:131  tokenToChar, with "<BOS>" as 0 and "?" as Undefined
tokenToChar(tk, id) == IF id = tk.BOS THEN 0 ELSE At(tk.uchars, id)

---------------------------------------------------------------------------
(* The inputs of the tokenizer *)

RECURSIVE SeqsUpTo(_, _)
SeqsUpTo(S, n) ==
  IF n = 0 THEN {<<>>}
  ELSE LET shorter == SeqsUpTo(S, n - 1)
       IN shorter \cup {Append(q, x) : q \in {r \in shorter : Len(r) = n - 1}, x \in S}

Documents == SeqsUpTo(Alphabet, MaxDocLen)
Corpora == SeqsUpTo(Documents, MaxDocs) \ {<<>>}
Strings == SeqsUpTo(Alphabet, MaxStrLen)

Perms(n) == {p \in [1..n -> 1..n] : \A i, j \in 1..n : p[i] = p[j] => i = j}
Permuted(ds, p) == [i \in 1..Len(ds) |-> ds[p[i]]]

NoTokenizer == [uchars |-> <<>>, charToId |-> <<>>, BOS |-> Undefined, vocabSize |-> 0]
NoCall == [op |-> "none"]

\* The page's components, not mounted.
UIIdle ==
  /\ ui = <<>>
  /\ eventLoop = <<>>
  /\ model = <<>>
  /\ seen = <<>>

TokIdle ==
  /\ corpus = <<>>
  /\ docs = <<>>
  /\ tokenizer = NoTokenizer
  /\ tkCall = NoCall

TokFrame == UNCHANGED <<adVars, rngVars, gptVars, inst, uiVars>>

\* gpt.ts:199-203  the constructor's first lines: the corpus is NAMES, it is
\* shuffled (by a permutation the seed decides), the tokenizer is built
CorpusInit ==
  /\ corpus \in Corpora
  /\ docs = <<>>
  /\ tokenizer = NoTokenizer
  /\ tkCall = NoCall

Construct ==
  /\ tokenizer = NoTokenizer
  /\ \E p \in Perms(Len(corpus)) :
       /\ docs' = Permuted(corpus, p)
       /\ tokenizer' = createTokenizer(docs')
  /\ UNCHANGED <<corpus, tkCall>>
  /\ TokFrame

CorpusNext == Construct

\* gpt.ts:125-132  a tokenizer built from any corpus, and its encode and
\* decode called by any collaborator
TokInit ==
  /\ corpus = <<>>
  /\ docs = <<>>
  /\ tokenizer \in {createTokenizer(ds) : ds \in Corpora}
  /\ tkCall = NoCall

Encode ==
  /\ \E s \in Strings :
       tkCall' = [op |-> "encode", s |-> s, ids |-> encode(tokenizer, s),
                  threw |-> FALSE]
  /\ UNCHANGED <<corpus, docs, tokenizer>>
  /\ TokFrame

Decode ==
  /\ tkCall.op = "encode"
  /\ tkCall' = [op |-> "decode", s |-> tkCall.s, ids |-> tkCall.ids,
                text |-> decode(tokenizer, tkCall.ids), threw |-> FALSE]
  /\ UNCHANGED <<corpus, docs, tokenizer>>
  /\ TokFrame

TokNext == Encode \/ Decode

---------------------------------------------------------------------------
(* gpt.ts:91-102  MersenneTwister.choices.  The draw of random() is an      *)
(* input: a number u in [0, 1).                                             *)

\* a < b (false when either is NaN)
RLt(a, b) == RGt(b, a)

\* The sums and the product of choices are doubles: each is rounded to the
\* nearest number of the format, ties to the even significand; a result
\* beyond the largest finite number is Infinity, and near zero the numbers
\* are the multiples of the smallest positive one.  The format here has
\* FloatBits bits of significand (a double has 53), MinSub as its smallest
\* positive number (2^-1074) and MaxFinite as its largest (about 1.8e308).
RECURSIVE TwoTo(_)
TwoTo(k) == IF k = 0 THEN 1 ELSE 2 * TwoTo(k - 1)

MinSub == Frac(1, 64)
MinNormal == RMul(R(TwoTo(FloatBits - 1)), MinSub)
MaxFinite == RMul(R((TwoTo(FloatBits) - 1) * 128), MinSub)

\* The nearest integer to n/d for n >= 0, the even one of two equally near
RoundHalfEven(n, d) ==
  LET f == n \div d
      rem == n - f * d
  IN IF 2 * rem < d THEN f
     ELSE IF 2 * rem > d THEN f + 1
     ELSE IF f % 2 = 0 THEN f ELSE f + 1

\* The distance between neighbouring numbers of the format at n/d smallest
\* positive numbers, from distance s on
RECURSIVE Spacing(_, _, _)
Spacing(n, d, s) ==
  IF n < TwoTo(FloatBits) * s * d THEN s ELSE Spacing(n, d, 2 * s)

\* The double nearest to the number a
Fl(a) ==
  IF ~IsFinite(a) THEN a
  ELSE Const(RMul([n |-> Abs(a.n), d |-> a.d], RInv(MinSub)), LAMBDA y :
       Const(Spacing(y.n, y.d, 1), LAMBDA s :
       Const(RMul(R(RoundHalfEven(y.n, y.d * s) * s), MinSub), LAMBDA r :
         IF RGt(r, MaxFinite) THEN [n |-> Sgn(a.n), d |-> 0]
         ELSE [n |-> Sgn(a.n) * r.n, d |-> r.d])))

\* gpt.ts:92-94  the cumulative sums, cum[0..i]
RECURSIVE Cum(_, _)
Cum(weights, i) ==
  IF i = 1 THEN <<Fl(weights[1])>>
  ELSE LET c == Cum(weights, i - 1) IN Append(c, Fl(RAdd(c[i - 1], weights[i])))

\* gpt.ts:99  x < cum[mid]
GoLeft(x, c) == RLt(x, c)

\* gpt.ts:96-100  the binary search; lo, hi and the result index from 0
RECURSIVE Search(_, _, _, _)
Search(cum, x, lo, hi) ==
  IF lo < hi
    THEN LET mid == (lo + hi) \div 2
         IN IF GoLeft(x, cum[mid + 1]) THEN Search(cum, x, lo, mid)
            ELSE Search(cum, x, mid + 1, hi)
    ELSE lo

\* gpt.ts:91-102  choices, for a weight vector that is not empty
choices(population, weights, u) ==
  LET cum == Cum(weights, Len(weights))
      x   == Fl(RMul(u, cum[Len(cum)]))
      lo  == Search(cum, x, 0, Len(cum) - 1)
  IN population[lo + 1]

\* gpt.ts:444  Array.from({ length: n }, (_, i) => i)
TokenPool(n) == [i \in 1..n |-> i - 1]

\* Weights: none, the smallest positive number, two ordinary ones, the largest
WeightValues == {R(0), MinSub, R(1), R(2), MaxFinite}
WeightVectors == SeqsUpTo(WeightValues, MaxWeights) \ {<<>>}
Draws == {Frac(k, RandDen) : k \in 0..(RandDen - 1)}

RECURSIVE Total(_, _)
Total(weights, i) == IF i = 0 THEN R(0) ELSE RAdd(Total(weights, i - 1), weights[i])

RngIdle == rngCall = NoCall /\ rng = <<>>

RngFrame == UNCHANGED <<adVars, tokVars, gptVars, inst, uiVars>>

Choices ==
  /\ \E w \in WeightVectors, u \in Draws :
       rngCall' = [op |-> "choices", weights |-> w, u |-> u,
                   result |-> choices(TokenPool(Len(w)), w, u), threw |-> FALSE]
  /\ UNCHANGED rng
  /\ RngFrame

RngNext == Choices

---------------------------------------------------------------------------
(* gpt.ts:181-502  GPTModel.  The numbers a forward pass computes are not   *)
(* modelled: a cached key/value vector is named by the call, position and   *)
(* token that produced it, an attention weight by the cached key it         *)
(* weighs, and the logits are any finite numbers.                           *)

nLayer == 1
nHead == 4
learningRate == Frac(1, 100)

\* names-data.ts: the corpus.  One name shorter than the context, one of two
\* characters, one longer than the context.
NAMES ==
  << <<1>>, <<2, 1>>, [i \in 1..(blockSize + 1) |-> IF i % 2 = 1 THEN 1 ELSE 2] >>

Layers == 0..(nLayer - 1)
Heads == 0..(nHead - 1)

Min(a, b) == IF a < b THEN a ELSE b

\* a / b
RDiv(a, b) == RMul(a, RInv(b))

\* gpt.ts:370-371, 428-429  Array.from({ length: nLayer }, () => [])
FreshCache == [li \in Layers |-> <<>>]

\* A layer that attends before it appends the current key/value
layerStepReadFirst(cache, entry) == [cache |-> Append(cache, entry), read |-> cache]

\* gpt.ts:313-321  keys[li].push(k); values[li].push(v); then every head maps
\* over the whole of keys[li] and values[li]
layerStep(cache, entry) ==
  LET pushed == Append(cache, entry) IN [cache |-> pushed, read |-> pushed]

\* gpt.ts:317-337  the attention records of layer li: per head, one row with
\* one weight per key read
HeadRecords(li, read) ==
  [h \in 1..nHead |-> [layer |-> li, head |-> h - 1, weights |-> <<read>>]]

\* gpt.ts:306-356  the layers li.. of forward
RECURSIVE forwardLayers(_, _, _, _)
forwardLayers(li, entry, keys, att) ==
  IF li >= nLayer THEN [keys |-> keys, attentionData |-> att]
  ELSE LET ls == layerStep(keys[li], entry)
       IN forwardLayers(li + 1, entry, [keys EXCEPT ![li] = ls.cache],
                        att \o HeadRecords(li, ls.read))

\* gpt.ts:288-360  forward.  wte[tokenId] or wpe[posId] is undefined outside
\* the tables, and reading an element of it throws.
forward(tokenId, posId, keys, call) ==
  IF ~(tokenId \in 0..(tokenizer.vocabSize - 1)) \/ ~(posId \in 0..(blockSize - 1))
    THEN [threw |-> TRUE, keys |-> keys, attentionData |-> <<>>]
    ELSE LET r == forwardLayers(0, [call |-> call, pos |-> posId, tok |-> tokenId],
                                keys, <<>>)
         IN [threw |-> FALSE, keys |-> r.keys, attentionData |-> r.attentionData]

\* gpt.ts:385-392  one attention record merged into allAttention
MergeOne(all, ad) ==
  IF \E i \in 1..Len(all) : all[i].layer = ad.layer /\ all[i].head = ad.head
    THEN LET i == CHOOSE k \in 1..Len(all) :
                    /\ all[k].layer = ad.layer /\ all[k].head = ad.head
                    /\ \A j \in 1..(k - 1) :
                         ~(all[j].layer = ad.layer /\ all[j].head = ad.head)
         IN [all EXCEPT ![i].weights = Append(@, ad.weights[1])]
    ELSE Append(all, ad)

\* gpt.ts:384-393, 454-463  for (const ad of attentionData) ...
RECURSIVE Merge(_, _, _)
Merge(all, att, i) ==
  IF i > Len(att) THEN all ELSE Merge(MergeOne(all, att[i]), att, i + 1)

\* gpt.ts:375-394  the loop of trainStep from position posId on
RECURSIVE trainLoop(_, _, _, _, _)
trainLoop(posId, n, tokens, call, st) ==
  IF posId >= n THEN st
  ELSE LET f == forward(tokens[posId + 1], posId, st.keys, call)
       IN IF f.threw THEN [st EXCEPT !.threw = TRUE]
          ELSE trainLoop(posId + 1, n, tokens, call,
                 [ keys  |-> f.keys,
                   fwd   |-> Append(st.fwd, [pos |-> posId, tok |-> tokens[posId + 1],
                                             attentionData |-> f.attentionData]),
                   all   |-> Merge(st.all, f.attentionData, 1),
                   threw |-> FALSE ])

\* gpt.ts:402  lrT
lrT(s, numSteps) == RMul(learningRate, RAdd(R(1), RNeg(RDiv(R(s), R(numSteps)))))

\* gpt.ts:440-446  the tokens the sampler can return.  The logits are finite
\* numbers and factor is 1 / temperature.  A finite factor leaves them finite,
\* softmax gives weights of which any may be positive, and any token can be
\* drawn.  Otherwise every scaled logit is infinite or NaN, subtracting the
\* maximum gives NaN, and every weight is NaN.
Sampled(factor) ==
  IF IsFinite(factor) THEN 0..(tokenizer.vocabSize - 1)
  ELSE { choices(TokenPool(tokenizer.vocabSize),
                 [i \in 1..tokenizer.vocabSize |-> NaN], u) : u \in Draws }

\* gpt.ts:436-464  the loop of generate from position posId on: the set of
\* the states it can end in
RECURSIVE genLoop(_, _, _, _, _, _)
genLoop(posId, len, tokenId, factor, call, st) ==
  IF posId >= len THEN {st}
  ELSE LET f == forward(tokenId, posId, st.keys, call)
       IN IF f.threw THEN {[st EXCEPT !.threw = TRUE]}
          ELSE LET st1 == [st EXCEPT !.keys = f.keys,
                                     !.fwd = Append(@, [pos |-> posId, tok |-> tokenId,
                                                        attentionData |-> f.attentionData])]
               IN UNION { IF sampled = tokenizer.BOS THEN {st1}
                          ELSE genLoop(posId + 1, len, sampled, factor, call,
                                 [st1 EXCEPT !.tokens = Append(@, sampled),
                                             !.all = Merge(@, f.attentionData, 1)])
                          : sampled \in Sampled(factor) }

NumStepsArgs == 1..MaxNumSteps
Temperatures == {Frac(1, 2), R(0), R(-1)}
MaxLenArgs == {Undefined} \cup 0..(blockSize + 1)

GptIdle ==
  /\ inst = <<>>
  /\ UIIdle
  /\ step = 0
  /\ ncalls = 0
  /\ ntrain = 0
  /\ gptCall = NoCall

\* gpt.ts:199-259  the model as the constructor leaves it
GptInit ==
  /\ corpus = NAMES
  /\ docs \in {Permuted(NAMES, p) : p \in Perms(Len(NAMES))}
  /\ tokenizer = createTokenizer(docs)
  /\ tkCall = NoCall
  /\ step = 0
  /\ ncalls = 0
  /\ ntrain = 0
  /\ gptCall = NoCall
  /\ inst = <<>>
  /\ UIIdle

GptFrame == UNCHANGED <<nodes, pass, built, tokVars, rngVars, inst, uiVars>>

\* A trainer that picks the document after the one the step count names
selectDocAhead(ds, s) == ds[((s + 1) % Len(ds)) + 1]

\* gpt.ts:364  this.docs[this.step % this.docs.length]
selectDoc(ds, s) == ds[(s % Len(ds)) + 1]

\* A step counter that a completed step advances by two
stepTwice(s) == s + 2

\* gpt.ts:415  this.step++
stepIncrement(s) == s + 1

\* gpt.ts:363-423  trainStep
TrainStep ==
  /\ ncalls < MaxCalls
  /\ \E numSteps \in NumStepsArgs :
       LET doc    == selectDoc(docs, step)
           tokens == encode(tokenizer, doc)
           n      == Min(blockSize, Len(tokens) - 1)
           call   == ncalls + 1
           run    == trainLoop(0, n, tokens, call,
                       [keys |-> FreshCache, fwd |-> <<>>, all |-> <<>>, threw |-> FALSE])
       IN IF run.threw
            THEN /\ gptCall' = [op |-> "trainStep", call |-> call, threw |-> TRUE,
                                k |-> ntrain, step0 |-> step,
                                fwd |-> run.fwd, attentionData |-> run.all]
                 /\ UNCHANGED <<step, _gen, ntrain>>
            ELSE /\ _gen' = NextGen
                 /\ step' = stepIncrement(step)
                 /\ ntrain' = ntrain + 1
                 /\ gptCall' = [op |-> "trainStep", call |-> call, threw |-> FALSE,
                                k |-> ntrain, step0 |-> step,
                                numSteps |-> numSteps, doc |-> doc, n |-> n,
                                lrT |-> lrT(step, numSteps), step |-> step',
                                fwd |-> run.fwd, attentionData |-> run.all]
  /\ ncalls' = ncalls + 1
  /\ GptFrame

\* gpt.ts:426-472  generate
Generate ==
  /\ ncalls < MaxCalls
  /\ \E temperature \in Temperatures, maxLen \in MaxLenArgs :
       LET len  == IF maxLen = Undefined THEN blockSize ELSE maxLen
           call == ncalls + 1
       IN \E run \in genLoop(0, len, tokenizer.BOS, RInv(temperature), call,
                       [keys |-> FreshCache, fwd |-> <<>>, all |-> <<>>,
                        tokens |-> <<>>, threw |-> FALSE]) :
            gptCall' = [op |-> "generate", call |-> call, threw |-> run.threw,
                        step0 |-> step, len |-> len,
                        temperature |-> temperature, maxLen |-> maxLen,
                        divisor |-> temperature, tokens |-> run.tokens,
                        fwd |-> run.fwd, attentionData |-> run.all]
  /\ ncalls' = ncalls + 1
  /\ UNCHANGED <<step, _gen, ntrain>>
  /\ GptFrame

GptNext == TrainStep \/ Generate

---------------------------------------------------------------------------
(* The engine as a state machine: a caller constructs leaves, composes      *)
(* them, and runs backward() on any node, in any order.                     *)

LeafData == {R(-1)}           \* data of the leaves a caller constructs
NumOperands == {R(2)}         \* the plain-number operands of add/mul/sub/div
PowExps == {2, -1}            \* the exponents given to pow

Slots == 1..Len(nodes)
Room(k) == Len(nodes) + k <= MaxNodes

ADFrame == UNCHANGED <<tokVars, rngVars, gptVars, inst, uiVars>>

ADInit ==
  /\ nodes = <<>>
  /\ _gen = 0
  /\ built = NoCall
  /\ pass = [count |-> 0, root |-> 0, gen |-> 0, prevRoot |-> 0, prevGen |-> 0,
             pre |-> <<>>, topo |-> <<>>]

Build(ns) == nodes' = ns /\ UNCHANGED <<_gen, pass, built>> /\ ADFrame

NewLeaf == \E d \in LeafData : Room(1) /\ Build(New(nodes, Value(d, <<>>, <<>>)))
Add == \E a, b \in Slots : Room(1) /\ Build(add(nodes, a, b))
AddNum == \E a \in Slots, k \in NumOperands : Room(1) /\ Build(addNum(nodes, a, k))
Mul == \E a, b \in Slots : Room(1) /\ Build(mul(nodes, a, b))
MulNum == \E a \in Slots, k \in NumOperands : Room(1) /\ Build(mulNum(nodes, a, k))
Pow == \E a \in Slots, e \in PowExps : Room(1) /\ Build(pow(nodes, a, e))
Relu == \E a \in Slots : Room(1) /\ Build(relu(nodes, a))
Neg == \E a \in Slots : Room(1) /\ Build(neg(nodes, a))
Sub == \E a, b \in Slots : Room(2) /\ Build(sub(nodes, a, b))
SubNum == \E a \in Slots, k \in NumOperands : Room(1) /\ Build(subNum(nodes, a, k))
Div == \E a, b \in Slots : Room(2) /\ Build(div(nodes, a, b))
DivNum == \E a \in Slots, k \in NumOperands : Room(1) /\ Build(divNum(nodes, a, k))

Backward ==
  \E root \in Slots :
    /\ pass.count < MaxBackward
    /\ LET gen == NextGen
           res == backward(nodes, root, gen)
       IN /\ _gen' = gen
          /\ nodes' = res.ns
          /\ pass' = [count |-> pass.count + 1, root |-> root, gen |-> gen,
                       prevRoot |-> pass.root, prevGen |-> pass.gen,
                       pre |-> nodes, topo |-> res.topo]
          /\ UNCHANGED built
          /\ ADFrame

ADNext ==
  \/ NewLeaf \/ Add \/ AddNum \/ Mul \/ MulNum \/ Pow \/ Relu \/ Neg
  \/ Sub \/ SubNum \/ Div \/ DivNum
  \/ Backward

InitAD == ADInit /\ TokIdle /\ RngIdle /\ GptIdle

SpecAD == InitAD /\ [][ADNext]_vars

---------------------------------------------------------------------------
(* What the claims about the engine speak of *)

\* The nodes reachable from v along child references
RECURSIVE Reach(_, _)
Reach(ns, v) ==
  {v} \cup (IF ns[v].nch >= 1 THEN Reach(ns, ns[v].c0) ELSE {})
      \cup (IF ns[v].nch = 2 THEN Reach(ns, ns[v].c1) ELSE {})

\* The sum, over all paths from r to v, of the product of the local
\* derivatives recorded along the path
RECURSIVE PathSum(_, _, _)
PathSum(ns, r, v) ==
  IF r = v THEN R(1)
  ELSE RAdd(IF ns[r].nch >= 1 THEN RMul(ns[r].lg0, PathSum(ns, ns[r].c0, v)) ELSE R(0),
            IF ns[r].nch = 2 THEN RMul(ns[r].lg1, PathSum(ns, ns[r].c1, v)) ELSE R(0))

\* Every value and local derivative of the nodes in S is a finite number
FiniteOn(ns, S) ==
  \A v \in S : IsFinite(ns[v].data) /\ IsFinite(ns[v].lg0) /\ IsFinite(ns[v].lg1)

\* The number of child references to v held by the nodes of S
RefsTo(ns, S, v) ==
  Cardinality({p \in S : ns[p].nch >= 1 /\ ns[p].c0 = v})
  + Cardinality({p \in S : ns[p].nch = 2 /\ ns[p].c1 = v})

\* What the references from node p to v contribute to v's gradient
EdgeTerms(ns, p, v) ==
  RAdd(IF ns[p].nch >= 1 /\ ns[p].c0 = v THEN RMul(ns[p].lg0, ns[p].grad) ELSE R(0),
       IF ns[p].nch = 2 /\ ns[p].c1 = v THEN RMul(ns[p].lg1, ns[p].grad) ELSE R(0))

\* The sum of EdgeTerms over the nodes p <= k of S
RECURSIVE Contribution(_, _, _, _)
Contribution(ns, S, v, k) ==
  IF k = 0 THEN R(0)
  ELSE RAdd(Contribution(ns, S, v, k - 1),
            IF k \in S THEN EdgeTerms(ns, k, v) ELSE R(0))

Position(seq, x) == CHOOSE i \in 1..Len(seq) : seq[i] = x

PassReach == Reach(pass.pre, pass.root)

\* C1: after root.backward() on a graph of finite values whose reachable
\* gradients were all 0, the root's gradient is 1 and every reachable node's
\* gradient is the sum over all paths from the root of the product of the
\* local derivatives along the path.
ThmC1_GradientIsPathSum ==
  ( /\ pass.count > 0
    /\ FiniteOn(pass.pre, PassReach)
    /\ \A v \in PassReach : pass.pre[v].grad = R(0) )
  => /\ nodes[pass.root].grad = R(1)
     /\ \A v \in PassReach : nodes[v].grad = PathSum(nodes, pass.root, v)

\* A pass from zeroed gradients over a graph in which one node is both operands
\* of an op, or is shared by several parents, and whose gradient is not zero
WitC1_SharedNodePass ==
  /\ pass.count > 0
  /\ FiniteOn(pass.pre, PassReach)
  /\ \A v \in PassReach : pass.pre[v].grad = R(0)
  /\ \E v \in PassReach :
       /\ RefsTo(nodes, PassReach, v) >= 2
       /\ \E p \in PassReach : nodes[p].nch = 2 /\ nodes[p].c0 = v /\ nodes[p].c1 # v
       /\ nodes[v].grad # R(0)
       /\ nodes[v].grad # R(1)

\* C2: a pass enters every node reachable from its root into the topological
\* order exactly once, each node after all of its operands; the pass id is
\* greater than the id of the pass before and than every mark left on a node.
ThmC2_TopoOncePerPass ==
  pass.count > 0 =>
    /\ {pass.topo[i] : i \in 1..Len(pass.topo)} = PassReach
    /\ Len(pass.topo) = Cardinality(PassReach)
    /\ \A i \in 1..Len(pass.topo) :
         LET v == pass.topo[i] IN
           /\ nodes[v].nch >= 1 => Position(pass.topo, nodes[v].c0) < i
           /\ nodes[v].nch = 2 => Position(pass.topo, nodes[v].c1) < i
    /\ pass.gen > pass.prevGen
    /\ \A v \in 1..Len(pass.pre) : pass.pre[v].gen < pass.gen
    /\ \A v \in PassReach : nodes[v].gen = pass.gen
    /\ _gen = pass.gen

\* A second pass that reaches a node the first pass marked, in a graph where
\* some node is referenced more than once
WitC2_RevisitMarked ==
  /\ pass.count >= 2
  /\ \E v \in PassReach : pass.pre[v].gen = pass.prevGen /\ pass.prevGen > 0
  /\ \E v \in PassReach : RefsTo(nodes, PassReach, v) >= 2
  /\ pass.root # pass.prevRoot

\* C3: a pass sets the root's gradient to 1, adds to the gradient each other
\* reachable node had before the pass what its parents contribute, and leaves
\* every other node's gradient as it was: nothing is reset.
ThmC3_BackwardAccumulates ==
  pass.count > 0 =>
    \A v \in 1..Len(pass.pre) :
      nodes[v].grad =
        IF v = pass.root THEN R(1)
        ELSE IF v \in PassReach
          THEN RAdd(pass.pre[v].grad, Contribution(nodes, PassReach, v, Len(pass.pre)))
        ELSE pass.pre[v].grad

\* A second pass on the same root, after which a node holds more than the
\* single-pass gradient
WitC3_SecondPassSameRoot ==
  /\ pass.count >= 2
  /\ pass.root = pass.prevRoot
  /\ \E v \in PassReach \ {pass.root} :
       /\ pass.pre[v].grad # R(0)
       /\ nodes[v].grad # pass.pre[v].grad
       /\ nodes[v].grad # PathSum(nodes, pass.root, v)

\* The gradients of the first k nodes of an arena
Grads(ns, k) == [i \in 1..k |-> ns[i].grad]

\* C27: the backward() that marks nodes with a pass id does what the earlier
\* backward() with a visited Set does.  Run on the arena a pass started from,
\* with the gradients and the marks every earlier pass left there, the earlier
\* backward() builds the same topological order and leaves the same gradient
\* on every node; so the two agree after the first pass over a graph with
\* zeroed gradients and, pass by pass, after any sequence of passes.
ThmC27_PassIdEqualsVisitedSet ==
  pass.count >= 1 =>
    \E old \in {backwardVisited(pass.pre, pass.root)} :
      /\ old.topo = pass.topo
      /\ Grads(old.ns, Len(pass.pre)) = Grads(nodes, Len(pass.pre))

\* Two passes from different roots whose graphs share a node that is
\* referenced twice and that took a gradient from each pass
WitC27_OverlappingPasses ==
  /\ pass.count = 2
  /\ pass.root # pass.prevRoot
  /\ \E v \in Reach(nodes, pass.root) \cap Reach(nodes, pass.prevRoot) :
       /\ RefsTo(nodes, Reach(nodes, pass.root), v) >= 2
       /\ pass.pre[v].grad # R(0)
       /\ nodes[v].grad # pass.pre[v].grad
       /\ v \notin {pass.root, pass.prevRoot}

---------------------------------------------------------------------------
(* The claims about the tokenizer *)

Vocabulary == Range(tokenizer.uchars)

\* C4: for a string over the vocabulary, encode gives the marker, one id per
\* character, none of them the marker, and the marker again; decode of that
\* gives the string back.
ThmC4_EncodeDecodeRoundTrip ==
  (tkCall.op \in {"encode", "decode"} /\ Range(tkCall.s) \subseteq Vocabulary) =>
    LET ids == tkCall.ids IN
      /\ Len(ids) = Len(tkCall.s) + 2
      /\ ids[1] = tokenizer.BOS
      /\ ids[Len(ids)] = tokenizer.BOS
      /\ \A i \in 2..(Len(ids) - 1) :
           ids[i] # tokenizer.BOS /\ ids[i] \in 0..(tokenizer.vocabSize - 2)
      /\ tkCall.op = "decode" => tkCall.text = tkCall.s

\* A string of two different characters of the vocabulary went through encode
\* and decode
WitC4_TwoCharRoundTrip ==
  /\ tkCall.op = "decode"
  /\ Range(tkCall.s) \subseteq Vocabulary
  /\ Cardinality(Range(tkCall.s)) >= 2
  /\ Len(tkCall.s) >= 3

\* C5: the table lists each distinct character of the corpus once, in sorted
\* order, with ids 0..vocabSize-2; the marker id is vocabSize-1; and every
\* permutation of the corpus gives the same table.
ThmC5_TableSortedAndOrderFree ==
  tokenizer # NoTokenizer =>
    LET u == tokenizer.uchars IN
      /\ \A i, j \in 1..Len(u) : i < j => u[i] < u[j]
      /\ Range(u) = UNION {Range(corpus[k]) : k \in 1..Len(corpus)}
      /\ \A i \in 1..Len(u) : MapGet(tokenizer, u[i]) = i - 1
      /\ {MapGet(tokenizer, ch) : ch \in Range(u)} = 0..(tokenizer.vocabSize - 2)
      /\ tokenizer.BOS = tokenizer.vocabSize - 1
      /\ \A ch \in Range(u) : MapGet(tokenizer, ch) # tokenizer.BOS
      /\ \A p \in Perms(Len(corpus)) :
           createTokenizer(Permuted(corpus, p)) = tokenizer

\* A corpus that shows a later character first, shuffled into another order
WitC5_ShuffledUnsortedCorpus ==
  /\ tokenizer # NoTokenizer
  /\ Len(corpus) = 2
  /\ docs # corpus
  /\ corpus[1] # <<>> /\ corpus[2] # <<>>
  /\ corpus[1][1] > corpus[2][1]
  /\ tokenizer.vocabSize = 3

\* C6: encode of a string with a character outside the vocabulary raises and
\* returns no ids.
CexC6_EncodeRejectsUnknownChar ==
  (tkCall.op = "encode" /\ ~(Range(tkCall.s) \subseteq Vocabulary)) => tkCall.threw

---------------------------------------------------------------------------
(* The claims about the sampler *)

\* C7: choices raises when the weights sum to zero, and returns no index.
CexC7_ChoicesRaisesOnZeroSum ==
  (rngCall.op = "choices" /\ Total(rngCall.weights, Len(rngCall.weights)) = R(0))
    => rngCall.threw

\* choices returned the first index whose cumulative weight exceeds the draw
\* times the total, an index of the population whose weight is not 0.
FirstExceeding ==
  LET w   == rngCall.weights
      cum == Cum(w, Len(w))
      x   == Fl(RMul(rngCall.u, cum[Len(cum)]))
      i   == rngCall.result
  IN /\ i \in 0..(Len(w) - 1)
     /\ RGt(cum[i + 1], x)
     /\ \A j \in 0..(i - 1) : ~RGt(cum[j + 1], x)
     /\ w[i + 1] # R(0)

\* The total of the weights as choices computes it
ComputedTotal == Cum(rngCall.weights, Len(rngCall.weights))[Len(rngCall.weights)]

\* The same for weights whose computed total is finite and greater than the
\* smallest normal number
FirstExceedingOnNormalTotals ==
  (rngCall.op = "choices" /\ IsFinite(ComputedTotal) /\ RGt(ComputedTotal, MinNormal))
    => FirstExceeding

ADIdle ==
  /\ nodes = <<>>
  /\ _gen = 0
  /\ built = NoCall
  /\ pass = [count |-> 0, root |-> 0, gen |-> 0, prevRoot |-> 0, prevGen |-> 0,
             pre |-> <<>>, topo |-> <<>>]

InitCorpus == CorpusInit /\ ADIdle /\ RngIdle /\ GptIdle

SpecCorpus == InitCorpus /\ [][CorpusNext]_vars

InitTok == TokInit /\ ADIdle /\ RngIdle /\ GptIdle

SpecTok == InitTok /\ [][TokNext]_vars

InitRng == RngIdle /\ ADIdle /\ TokIdle /\ GptIdle

SpecRng == InitRng /\ [][RngNext]_vars

---------------------------------------------------------------------------
(* gpt.ts:13-103, 181-481  whole model objects: the PRNG each owns, its     *)
(* parameters and its optimizer state.  The generator is a congruential one *)
(* of WordBits bits in place of the 32-bit Mersenne Twister.  The network   *)
(* is reduced to one embedding dimension and no layer (attention is the     *)
(* subject of forward above), so that every gradient is an exact rational;  *)
(* a parameter's value is kept on a unit grid.                              *)

WordBits == 3

RECURSIVE Pow2(_)
Pow2(k) == IF k = 0 THEN 1 ELSE 2 * Pow2(k - 1)

WordMod == Pow2(WordBits)

\* A generator whose state after seeding depends on the global pass counter
seedFromCounter(n) == [mt |-> (n + _gen) % WordMod, idx |-> 0, gaussNext |-> <<>>]

\* gpt.ts:22-46  seed(n): the state is a function of n; no word drawn yet, no
\* cached normal deviate
seed(n) == [mt |-> n % WordMod, idx |-> 0, gaussNext |-> <<>>]

\* gpt.ts:48-62  int32(): the next word and the generator after it
int32(r) ==
  [y |-> r.mt, rng |-> [r EXCEPT !.mt = (5 * r.mt + 3) % WordMod, !.idx = r.idx + 1]]

\* gpt.ts:64-66  random(): two words make one number in [0, 1)
random(r) ==
  Const(int32(r), LAMBDA a :
  Const(int32(a.rng), LAMBDA b :
    [u |-> Frac(a.y * WordMod + b.y, WordMod * WordMod), rng |-> b.rng]))

\* The normal deviates on the unit grid: -1, 0 or 1
Level(u) == ((3 * u.n) \div u.d) - 1

\* A gauss() that draws a new pair on every call
gaussNeverCached(r) ==
  Const(random(r), LAMBDA a :
  Const(random(a.rng), LAMBDA b :
    [z |-> Level(a.u), rng |-> [b.rng EXCEPT !.gaussNext = <<Level(b.u)>>]]))

\* gpt.ts:68-78  gauss(): every second call returns the cached deviate and
\* draws nothing
gauss(r) ==
  IF r.gaussNext # <<>>
    THEN [z |-> r.gaussNext[1], rng |-> [r EXCEPT !.gaussNext = <<>>]]
    ELSE Const(random(r), LAMBDA a :
         Const(random(a.rng), LAMBDA b :
           [z |-> Level(a.u), rng |-> [b.rng EXCEPT !.gaussNext = <<Level(b.u)>>]]))

\* 32 - Math.clz32(n): the number of bits of n
RECURSIVE BitLen(_)
BitLen(n) == IF n = 0 THEN 0 ELSE 1 + BitLen(n \div 2)

\* gpt.ts:83-84  r = int32() >>> (32 - k); while (r > i) r = ...
RECURSIVE drawUpTo(_, _, _)
drawUpTo(i, k, r) ==
  Const(int32(r), LAMBDA w :
  Const(w.y \div Pow2(WordBits - k), LAMBDA q :
    IF q > i THEN drawUpTo(i, k, w.rng) ELSE [r |-> q, rng |-> w.rng]))

\* gpt.ts:80-89  shuffle from index i (from 0) down
RECURSIVE shuffle(_, _, _)
shuffle(arr, i, r) ==
  IF i <= 0 THEN [arr |-> arr, rng |-> r]
  ELSE Const(drawUpTo(i, BitLen(i + 1), r), LAMBDA d :
       Const([arr EXCEPT ![i + 1] = arr[d.r + 1], ![d.r + 1] = arr[i + 1]],
             LAMBDA swapped : shuffle(swapped, i - 1, d.rng)))

\* gpt.ts:214-224  matrix(): k more parameters, each a new Value holding the
\* next deviate
RECURSIVE matrix(_, _, _)
matrix(k, r, ps) ==
  IF k = 0 THEN [params |-> ps, rng |-> r]
  ELSE Const(gauss(r), LAMBDA g :
       Const(New(ps, Value(R(g.z), <<>>, <<>>)), LAMBDA ps1 :
         matrix(k - 1, g.rng, ps1)))

\* gpt.ts:226-230, 243-251  the parameters of the reduced network in the
\* order of this.params: wte (vocabSize), wpe (blockSize), lm_head (vocabSize)
NumParams(vocabSize) == vocabSize + blockSize + vocabSize
wte(vocabSize, tokenId) == 1 + tokenId
wpe(vocabSize, posId) == vocabSize + 1 + posId
lm_head(vocabSize, i) == vocabSize + blockSize + 1 + i

Zeros(k) == [i \in 1..k |-> R(0)]

\* gpt.ts:199-259  new GPTModel(seed)
GPTModel(sd) ==
  Const(shuffle(NAMES, Len(NAMES) - 1, seed(sd)), LAMBDA sh :
  Const(createTokenizer(sh.arr), LAMBDA tk :
  Const(matrix(NumParams(tk.vocabSize), sh.rng, <<>>), LAMBDA mx :
     [ seed      |-> sd,
       rng       |-> mx.rng,
       docs      |-> sh.arr,
       tokenizer |-> tk,
       params    |-> mx.params,
       m         |-> Zeros(NumParams(tk.vocabSize)),
       v         |-> Zeros(NumParams(tk.vocabSize)),
       step      |-> 0,
       calls     |-> <<>>,
       results   |-> <<>> ])))

\* gpt.ts:300-302, 358  forward in the reduced network: x = wte[tokenId] +
\* wpe[posId], then linear(x, lm_head), one logit wi.mul(x) per token.  The
\* arena with the new Values, and the slots of the logits.
RECURSIVE linear(_, _, _, _, _)
linear(ns, x, vocabSize, i, logits) ==
  IF i >= vocabSize THEN [ns |-> ns, logits |-> logits]
  ELSE Const(mul(ns, lm_head(vocabSize, i), x), LAMBDA n1 :
       Const(Append(logits, Len(n1)), LAMBDA l1 :
         linear(n1, x, vocabSize, i + 1, l1)))

logitsOf(ns, vocabSize, tokenId, posId) ==
  Const(add(ns, wte(vocabSize, tokenId), wpe(vocabSize, posId)), LAMBDA n1 :
    linear(n1, Len(n1), vocabSize, 0, <<>>))

\* gpt.ts:375-382  the loss terms of positions posId..n-1.  The softmax and
\* the logarithm are left out: the term is the negated logit of the target.
RECURSIVE lossTerms(_, _, _, _, _, _)
lossTerms(ns, vocabSize, tokens, posId, n, losses) ==
  IF posId >= n THEN [ns |-> ns, losses |-> losses]
  ELSE Const(logitsOf(ns, vocabSize, tokens[posId + 1], posId), LAMBDA f :
       Const(neg(f.ns, f.logits[tokens[posId + 2] + 1]), LAMBDA n1 :
       Const(Append(losses, Len(n1)), LAMBDA l1 :
         lossTerms(n1, vocabSize, tokens, posId + 1, n, l1))))

\* value.ts:97-99  vals.reduce((a, b) => a.add(b)), from vals[i] on with the
\* sum so far in slot acc
RECURSIVE vsum(_, _, _, _)
vsum(ns, vals, i, acc) ==
  IF i > Len(vals) THEN [ns |-> ns, sum |-> acc]
  ELSE Const(add(ns, acc, vals[i]), LAMBDA n1 : vsum(n1, vals, i + 1, Len(n1)))

beta1 == Frac(85, 100)
beta2 == Frac(99, 100)

\* gpt.ts:407  this.m[i]
mNext(m, g) == RAdd(RMul(beta1, m), RMul(RAdd(R(1), RNeg(beta1)), g))

\* gpt.ts:408  this.v[i]
vNext(v, g) == RAdd(RMul(beta2, v), RMul(RAdd(R(1), RNeg(beta2)), RMul(g, g)))

\* gpt.ts:409-411  p.data -= lrT * mHat / (Math.sqrt(vHat) + epsAdam), on the
\* unit grid: one unit against the sign of lrT * mHat (bc1 and bc2 are
\* positive, so mHat has the sign of m)
dataNext(data, rate, m) == RAdd(data, R(-(Sgn(rate.n) * Sgn(m.n))))

\* A counter of one bit
bumpGenOneBit(g) == (g + 1) % 2

\* value.ts:69  ++_gen
bumpGen(g) == g + 1

\* An update that leaves the gradient in place
adamKeepGrad(p, rate, m) == [p EXCEPT !.data = dataNext(@, rate, m)]

\* gpt.ts:411-412  p.data -= ...; p.grad = 0
adamParam(p, rate, m) == [p EXCEPT !.data = dataNext(@, rate, m), !.grad = R(0)]

\* gpt.ts:363-423  trainStep(numSteps) on model object mdl when the global
\* pass counter is g: the object and the counter after the call, and the
\* result.  The Values made by the forward pass are garbage after the call.
trainStepOf(mdl, g, numSteps) ==
  LET V      == mdl.tokenizer.vocabSize
      P      == Len(mdl.params)
      doc    == selectDoc(mdl.docs, mdl.step)
      gen    == bumpGen(g)
      s1     == stepIncrement(mdl.step)
  IN Const(encode(mdl.tokenizer, doc), LAMBDA tokens :
     Const(Min(blockSize, Len(tokens) - 1), LAMBDA n :
     Const(lossTerms(mdl.params, V, tokens, 0, n, <<>>), LAMBDA lt :
     Const(vsum(lt.ns, lt.losses, 2, lt.losses[1]), LAMBDA sm :
     Const(mulNum(sm.ns, sm.sum, Frac(1, n)), LAMBDA graph :
     Const(backward(graph, Len(graph), gen), LAMBDA bw :
     Const(lrT(mdl.step, numSteps), LAMBDA rate :
     Const([i \in 1..P |-> mNext(mdl.m[i], bw.ns[i].grad)], LAMBDA m1 :
     Const([i \in 1..P |-> vNext(mdl.v[i], bw.ns[i].grad)], LAMBDA v1 :
     Const([i \in 1..P |-> adamParam(bw.ns[i], rate, m1[i])], LAMBDA ps :
       [ mdl    |-> [mdl EXCEPT !.params = ps, !.m = m1, !.v = v1, !.step = s1],
         gen    |-> gen,
         grads  |-> [i \in 1..P |-> bw.ns[i].grad],
         result |-> [loss |-> graph[Len(graph)].data, step |-> s1, doc |-> doc] ]
     ))))))))))

ExpCap == 3

\* Math.floor
Floor(q) == q.n \div q.d

\* Math.exp for an argument that is not positive, as a power of two: 2 to the
\* floor of the argument, no smaller than 2^-ExpCap
ExpApprox(x) ==
  LET k == -Floor(x) IN Frac(1, Pow2(IF k > ExpCap THEN ExpCap ELSE k))

\* Math.max(...xs), from xs[i] on with the greatest so far
RECURSIVE MaxOf(_, _, _)
MaxOf(xs, i, best) ==
  IF i > Len(xs) THEN best
  ELSE MaxOf(xs, i + 1, IF RGt(xs[i], best) THEN xs[i] ELSE best)

\* gpt.ts:274-279  softmax, on the data of the logits
softmax(xs) ==
  Const(MaxOf(xs, 2, xs[1]), LAMBDA maxVal :
  Const([i \in 1..Len(xs) |-> ExpApprox(RAdd(xs[i], RNeg(maxVal)))], LAMBDA exps :
  Const(Total(exps, Len(exps)), LAMBDA total :
    [i \in 1..Len(xs) |-> RDiv(exps[i], total)])))

\* gpt.ts:436-464  the loop of generate in the reduced network, from position
\* posId on with generator r: the tokens and the generator it ends with
RECURSIVE sampleLoop(_, _, _, _, _, _, _)
sampleLoop(mdl, posId, len, tokenId, temperature, r, tokenIds) ==
  IF posId >= len THEN [tokens |-> tokenIds, rng |-> r]
  ELSE LET V == mdl.tokenizer.vocabSize
       IN Const(logitsOf(mdl.params, V, tokenId, posId), LAMBDA f :
          Const([i \in 1..V |-> RDiv(f.ns[f.logits[i]].data, temperature)], LAMBDA scaled :
          Const(softmax(scaled), LAMBDA weights :
          Const(random(r), LAMBDA d :
          Const(choices(TokenPool(V), weights, d.u), LAMBDA sampled :
            IF sampled = mdl.tokenizer.BOS THEN [tokens |-> tokenIds, rng |-> d.rng]
            ELSE Const(Append(tokenIds, sampled), LAMBDA pushed :
                   sampleLoop(mdl, posId + 1, len, sampled, temperature, d.rng,
                              pushed)))))))

\* A generate that scales the output weights in place
generateOfInPlace(mdl, temperature) ==
  Const(sampleLoop(mdl, 0, blockSize, mdl.tokenizer.BOS, temperature, mdl.rng, <<>>),
        LAMBDA run :
     [ mdl    |-> [mdl EXCEPT !.rng = run.rng,
                              !.params = [i \in 1..Len(@) |->
                                            [@[i] EXCEPT !.data = RDiv(@, temperature)]]],
       result |-> [ tokens |-> run.tokens,
                    text   |-> Join([i \in 1..Len(run.tokens) |->
                                      tokenToChar(mdl.tokenizer, run.tokens[i])]) ] ])

\* gpt.ts:426-472  generate(temperature) on model object mdl: the object after
\* the call, and the result
generateOf(mdl, temperature) ==
  Const(sampleLoop(mdl, 0, blockSize, mdl.tokenizer.BOS, temperature, mdl.rng, <<>>),
        LAMBDA run :
     [ mdl    |-> [mdl EXCEPT !.rng = run.rng],
       result |-> [ tokens |-> run.tokens,
                    text   |-> Join([i \in 1..Len(run.tokens) |->
                                      tokenToChar(mdl.tokenizer, run.tokens[i])]) ] ])

\* A batch whose every sample starts from the seed again
batchSampleReseeded(mdl, temperature) ==
  generateOf([mdl EXCEPT !.rng = seed(mdl.seed)], temperature)

\* gpt.ts:478  this.generate(temperature)
batchSample(mdl, temperature) == generateOf(mdl, temperature)

\* gpt.ts:475-481  generateBatch(count, temperature): samples i..count-1
RECURSIVE generateBatchOf(_, _, _, _, _)
generateBatchOf(mdl, i, count, temperature, results) ==
  IF i >= count THEN [mdl |-> mdl, result |-> results]
  ELSE Const(batchSample(mdl, temperature), LAMBDA g :
       Const(Append(results, g.result), LAMBDA pushed :
         generateBatchOf(g.mdl, i + 1, count, temperature, pushed)))

\* The seeds models are constructed with, and the counts batches are asked for
Seeds == {0, 1}
BatchCounts == {1, 2}

DefaultNumSteps == 1000
DefaultTemperature == Frac(1, 2)

\* gpt.ts:260-266  getParamCount(), getCurrentStep()
gettersOf(mdl) ==
  [mdl |-> mdl, result |-> [paramCount |-> Len(mdl.params), step |-> mdl.step]]

\* One call on object mdl when the global pass counter is g: the object, with
\* the call and its result added to its log, and the counter after the call
applyCall(mdl, g, call) ==
  Const(CASE call.op = "trainStep"     -> trainStepOf(mdl, g, DefaultNumSteps)
          [] call.op = "generate"      -> generateOf(mdl, DefaultTemperature)
          [] call.op = "generateBatch" ->
               generateBatchOf(mdl, 0, call.count, DefaultTemperature, <<>>)
          [] OTHER                     -> gettersOf(mdl),
        LAMBDA r :
     [ mdl |-> [r.mdl EXCEPT !.calls = Append(@, call),
                             !.results = Append(@, r.result)],
       gen |-> IF call.op = "trainStep" THEN r.gen ELSE g ])

Objects == {"A", "B"}
NoModel == [seed |-> Undefined, calls |-> <<>>]
Constructed(k) == inst[k].seed # Undefined

RECURSIVE SumLen(_)
SumLen(S) ==
  IF S = {} THEN 0
  ELSE LET k == CHOOSE x \in S : TRUE IN Len(inst[k].calls) + SumLen(S \ {k})

\* Calls made so far, on all objects together
CallsMade == SumLen(Objects)

InstFrame == UNCHANGED <<nodes, pass, built, tokVars, rngVars, gptVars, uiVars>>

\* No model object constructed yet
InstInit ==
  /\ inst = [k \in Objects |-> NoModel]
  /\ _gen = 0

\* gpt.ts:199-259  new GPTModel(seed)
InstConstruct(k) ==
  /\ ~Constructed(k)
  /\ \E sd \in Seeds : inst' = [inst EXCEPT ![k] = GPTModel(sd)]
  /\ UNCHANGED _gen
  /\ InstFrame

\* The object and the pass counter after one call
Called(k, r) ==
  /\ inst' = [inst EXCEPT ![k] = r.mdl]
  /\ _gen' = r.gen

\* gpt.ts:363-423  model.trainStep()
InstTrainStep(k) ==
  /\ Constructed(k)
  /\ CallsMade < MaxOps
  /\ inst[k].step < MaxSteps
  /\ \E r \in {applyCall(inst[k], _gen, [op |-> "trainStep"])} : Called(k, r)
  /\ InstFrame

\* gpt.ts:426-472  model.generate()
InstGenerate(k) ==
  /\ Constructed(k)
  /\ CallsMade < MaxOps
  /\ \E r \in {applyCall(inst[k], _gen, [op |-> "generate"])} : Called(k, r)
  /\ InstFrame

\* gpt.ts:475-481  model.generateBatch(count)
InstGenerateBatch(k) ==
  /\ Constructed(k)
  /\ CallsMade < MaxOps
  /\ \E count \in BatchCounts :
       \E r \in {applyCall(inst[k], _gen, [op |-> "generateBatch", count |-> count])} :
         Called(k, r)
  /\ InstFrame

\* gpt.ts:260-266  model.getParamCount(), model.getCurrentStep()
InstGetters(k) ==
  /\ Constructed(k)
  /\ CallsMade < MaxOps
  /\ \E r \in {applyCall(inst[k], _gen, [op |-> "getters"])} : Called(k, r)
  /\ InstFrame

InstNext ==
  \E k \in Objects :
    \/ InstConstruct(k)
    \/ InstTrainStep(k)
    \/ InstGenerate(k)
    \/ InstGenerateBatch(k)
    \/ InstGetters(k)

---------------------------------------------------------------------------
(* Claims about the trainer and the generator                               *)

\* C8: the learning rate a trainStep applies is a positive number, for every
\* numSteps and every step count: the linear decay never takes it to zero or
\* below.
CexC8_LearningRateStaysPositive ==
  (gptCall.op = "trainStep" /\ ~gptCall.threw) => RGt(gptCall.lrT, R(0))

\* C9: the number generate divides the logits by is positive, whatever
\* temperature it is given: a zero or negative temperature is raised to a
\* small floor first.
CexC9_TemperatureClamped ==
  gptCall.op = "generate" => RGt(gptCall.divisor, R(0))

\* The keys one forward call read in a layer are those of positions 0..pos of
\* this same call, in order.
CausalRow(row, pos, call) ==
  /\ Len(row) = pos + 1
  /\ \A t \in 1..Len(row) : row[t].pos = t - 1 /\ row[t].call = call

\* C10: in every trainStep or generate call the forward passes run at
\* positions 0, 1, 2, ... and the attention of the pass at position p, in
\* every layer and head, reads exactly p+1 cached keys: those this call
\* appended at positions 0..p, none from an earlier call.  The rows merged
\* over the call are the same: row q has q+1 weights.
ThmC10_FreshCausalCache ==
  gptCall.op \in {"trainStep", "generate"} =>
    /\ \A i \in 1..Len(gptCall.fwd) :
         LET f == gptCall.fwd[i]
         IN /\ f.pos = i - 1
            /\ Len(f.attentionData) = nLayer * nHead
            /\ \A a \in 1..Len(f.attentionData) :
                 /\ Len(f.attentionData[a].weights) = 1
                 /\ CausalRow(f.attentionData[a].weights[1], f.pos, gptCall.call)
    /\ \A a \in 1..Len(gptCall.attentionData) :
         \A q \in 1..Len(gptCall.attentionData[a].weights) :
           CausalRow(gptCall.attentionData[a].weights[q], q - 1, gptCall.call)

\* A call that follows an earlier call and runs forward at three positions.
WitC10_LaterCallThreePositions ==
  /\ gptCall.op \in {"trainStep", "generate"}
  /\ gptCall.call >= 2
  /\ ~gptCall.threw
  /\ Len(gptCall.fwd) >= 3
  /\ Len(gptCall.attentionData) = nLayer * nHead
  /\ Len(gptCall.attentionData[1].weights) >= 2

\* C11: the k-th trainStep call (k = 0, 1, ...) trains on docs[k mod N], the
\* forward passes being fed that document's tokens in order, and returns that
\* same document; after N steps the corpus is gone through again.
ThmC11_DocsCycleInOrder ==
  (gptCall.op = "trainStep" /\ ~gptCall.threw) =>
    LET d    == docs[(gptCall.k % Len(docs)) + 1]
        toks == encode(tokenizer, d)
    IN /\ gptCall.doc = d
       /\ Len(gptCall.fwd) = Min(blockSize, Len(toks) - 1)
       /\ \A i \in 1..Len(gptCall.fwd) : gptCall.fwd[i].tok = toks[i]

\* The trainStep call after the last document: the corpus wraps around.
WitC11_WrapAround ==
  /\ gptCall.op = "trainStep"
  /\ ~gptCall.threw
  /\ gptCall.k = Len(docs)
  /\ gptCall.doc = docs[1]
  /\ docs[1] # docs[2]

\* C12: the step counter is the number of trainStep calls that returned: each
\* adds exactly one and returns the counter after adding, and generate leaves
\* the counter as it found it.
ThmC12_StepCountsTrainSteps ==
  /\ step = ntrain
  /\ (gptCall.op = "trainStep" /\ ~gptCall.threw) =>
       (step = gptCall.step0 + 1 /\ gptCall.step = step)
  /\ gptCall.op = "generate" => step = gptCall.step0

\* A second trainStep returns, with a generate call between the two.
WitC12_SecondStepAfterGenerate ==
  /\ gptCall.op = "trainStep"
  /\ ~gptCall.threw
  /\ gptCall.step = 2
  /\ gptCall.call = 3

\* C13: every generate call returns: it feeds the marker at position 0 and
\* then each sampled token at the next position, stops at the first sampled
\* marker or after len positions (len is maxLen, or the context size without
\* one), and returns at most len tokens, none the marker, all in
\* 0..vocabSize-2.
CexC13_GenerateReturnsBoundedTokens ==
  gptCall.op = "generate" =>
    /\ ~gptCall.threw
    /\ Len(gptCall.tokens) <= gptCall.len
    /\ \A i \in 1..Len(gptCall.tokens) :
         gptCall.tokens[i] \in 0..(tokenizer.vocabSize - 2)
    /\ \A i \in 1..Len(gptCall.fwd) :
         /\ gptCall.fwd[i].pos = i - 1
         /\ gptCall.fwd[i].tok = IF i = 1 THEN tokenizer.BOS ELSE gptCall.tokens[i - 1]
    /\ \/ Len(gptCall.fwd) = Len(gptCall.tokens) + 1
       \/ (Len(gptCall.fwd) = Len(gptCall.tokens) /\ Len(gptCall.tokens) = gptCall.len)

---------------------------------------------------------------------------
(* Claims about whole model objects                                         *)

\* The calls of a log with every generateBatch(count) replaced by count
\* generate calls, each with its result
RECURSIVE Expand(_, _, _)
Expand(calls, results, i) ==
  IF i > Len(calls) THEN <<>>
  ELSE (IF calls[i].op = "generateBatch"
          THEN [j \in 1..Len(results[i]) |->
                  [call |-> [op |-> "generate"], result |-> results[i][j]]]
          ELSE << [call |-> calls[i], result |-> results[i]] >>)
       \o Expand(calls, results, i + 1)

Expanded(k) == Expand(inst[k].calls, inst[k].results, 1)
ExpandedCalls(k) == [i \in 1..Len(Expanded(k)) |-> Expanded(k)[i].call]

\* C14: generateBatch(count) returns count results, and is count generate
\* calls: on two models of one seed, a log with a batch and a log with that
\* many single calls in its place give the same samples in the same order and
\* leave the same PRNG state.
ThmC14_BatchIsSuccessiveGenerates ==
  /\ \A k \in Objects : \A i \in 1..Len(inst[k].calls) :
       inst[k].calls[i].op = "generateBatch" =>
         Len(inst[k].results[i]) = inst[k].calls[i].count
  /\ \A a, b \in Objects :
       (/\ Constructed(a) /\ Constructed(b)
        /\ inst[a].seed = inst[b].seed
        /\ ExpandedCalls(a) = ExpandedCalls(b))
       => (Expanded(a) = Expanded(b) /\ inst[a].rng = inst[b].rng)

\* One model made a batch of two, the other of the same seed two single
\* calls, and the two samples differ.
WitC14_BatchAgainstTwoCalls ==
  /\ Constructed("A") /\ Constructed("B")
  /\ inst["A"].seed = inst["B"].seed
  /\ inst["A"].calls = << [op |-> "generateBatch", count |-> 2] >>
  /\ inst["B"].calls = << [op |-> "generate"], [op |-> "generate"] >>
  /\ inst["A"].results[1][1] # inst["A"].results[1][2]

\* The model object without the pass marks of its parameters and its log
Observable(mdl) ==
  [ rng    |-> mdl.rng,
    docs   |-> mdl.docs,
    params |-> [i \in 1..Len(mdl.params) |->
                  [data |-> mdl.params[i].data, grad |-> mdl.params[i].grad]],
    m      |-> mdl.m,
    v      |-> mdl.v,
    step   |-> mdl.step ]

\* C15: two models of one seed have the same corpus order and the same
\* initial parameters, return the same result at every call as long as they
\* were given the same calls, and after the same calls are in the same state.
ThmC15_SameSeedSameResults ==
  \A a, b \in Objects :
    (Constructed(a) /\ Constructed(b) /\ inst[a].seed = inst[b].seed) =>
      /\ inst[a].docs = inst[b].docs
      /\ inst[a].tokenizer = inst[b].tokenizer
      /\ \A j \in 1..Min(Len(inst[a].calls), Len(inst[b].calls)) :
           SubSeq(inst[a].calls, 1, j) = SubSeq(inst[b].calls, 1, j)
             => inst[a].results[j] = inst[b].results[j]
      /\ inst[a].calls = inst[b].calls => Observable(inst[a]) = Observable(inst[b])

\* Two models of one seed in one process, each trained once and no longer as
\* constructed.
WitC15_TwinTrainedLater ==
  /\ Constructed("A") /\ Constructed("B")
  /\ inst["A"].seed = inst["B"].seed
  /\ inst["A"].calls = << [op |-> "trainStep"] >>
  /\ inst["B"].calls = << [op |-> "trainStep"] >>
  /\ _gen = 2
  /\ inst["A"].params # GPTModel(inst["A"].seed).params

\* The calls of a log made on a model alone in its process, from call i on
RECURSIVE Replay(_, _, _, _)
Replay(mdl, g, calls, i) ==
  IF i > Len(calls) THEN mdl
  ELSE Const(applyCall(mdl, g, calls[i]), LAMBDA r : Replay(r.mdl, r.gen, calls, i + 1))

Alone(k) == Replay(GPTModel(inst[k].seed), 0, inst[k].calls, 1)

\* C16: whatever was done to the other model in between, a model's PRNG
\* state, parameters, optimizer state, step counter and results are those it
\* has after the same calls alone in a process, where no other model moves
\* the global pass counter.
ThmC16_ModelsDoNotInterfere ==
  \A k \in Objects :
    Constructed(k) =>
      \E alone \in {Alone(k)} :
        /\ Observable(inst[k]) = Observable(alone)
        /\ inst[k].results = alone.results

\* Model B ran its backward pass after model A had moved the pass counter,
\* and then sampled.
WitC16_TrainedAfterTheOther ==
  /\ Constructed("A") /\ Constructed("B")
  /\ inst["A"].calls = << [op |-> "trainStep"] >>
  /\ inst["B"].calls = << [op |-> "trainStep"], [op |-> "generate"] >>
  /\ \E i \in 1..Len(inst["B"].params) : inst["B"].params[i].gen = 2
  /\ \E i \in 1..Len(inst["B"].params) : inst["B"].m[i] # R(0)

\* The state C17 is about
Trained(mdl) == <<mdl.params, mdl.m, mdl.v, mdl.step>>

\* C17: a step that changes a model's parameter values, gradients, moment
\* arrays or step counter is a trainStep on that model, with its backward
\* pass run; generate, generateBatch and the getters change none of them.
ThmC17_OnlyTrainStepWrites ==
  [][\A k \in Objects :
       (Constructed(k) /\ Trained(inst'[k]) # Trained(inst[k])) =>
         /\ Len(inst'[k].calls) = Len(inst[k].calls) + 1
         /\ inst'[k].calls[Len(inst'[k].calls)].op = "trainStep"
         /\ _gen' = _gen + 1
         /\ \E i \in 1..Len(inst'[k].params) : inst'[k].params[i].gen = _gen']_vars

\* A trained model has sampled singly and in a batch.
WitC17_SamplingAfterTraining ==
  /\ Constructed("A")
  /\ inst["A"].calls = << [op |-> "trainStep"], [op |-> "generate"],
                          [op |-> "generateBatch", count |-> 2] >>
  /\ inst["A"].params # GPTModel(inst["A"].seed).params
  /\ inst["A"].rng # GPTModel(inst["A"].seed).rng

\* The positions of the forward calls the latest trainStep() or generate()
\* made: those that returned and, when one threw, that one.
IssuedPositions ==
  {gptCall.fwd[i].pos : i \in 1..Len(gptCall.fwd)}
    \cup (IF gptCall.threw THEN {Len(gptCall.fwd)} ELSE {})

\* The positions trainStep() has for a document.
PositionsFor(doc) == Min(blockSize, Len(encode(tokenizer, doc)) - 1)

\* Every forward call of trainStep() was given a position below the context
\* size, and trainStep() had at least one position.
TrainStepInContext ==
  gptCall.op = "trainStep"
    => /\ IssuedPositions \subseteq 0..(blockSize - 1)
       /\ ~gptCall.threw
       /\ gptCall.n >= 1

\* C26: every forward call of trainStep(), whatever the length of the
\* document, and of generate(), whatever maxLen, is given a position in
\* 0..blockSize-1, so no lookup of wpe and no cache passes the context size;
\* trainStep() has at least one position, for the empty document too.
CexC26_PositionsWithinContext ==
  /\ TrainStepInContext
  /\ PositionsFor(<<>>) >= 1
  /\ gptCall.op = "generate"
       => /\ IssuedPositions \subseteq 0..(blockSize - 1)
          /\ \A i \in 1..Len(gptCall.fwd) :
               \A ad \in Range(gptCall.fwd[i].attentionData) :
                 Len(ad.weights[1]) <= blockSize

\* The parameters of a model with every gradient set to 0.
ZeroedGrads(ps) == [i \in 1..Len(ps) |-> [ps[i] EXCEPT !.grad = R(0)]]

\* The gradient of the loss of the model's next step alone: what its backward
\* pass leaves in the parameters when it starts from gradients that are 0.
StepGradient(mdl) ==
  trainStepOf([mdl EXCEPT !.params = ZeroedGrads(mdl.params)], _gen, DefaultNumSteps).grads

\* C25: after the constructor and after every call that returns, trainStep()
\* above all, the gradient of every parameter is 0; and the moments a
\* trainStep() leaves are those of Adam fed with the gradient of that step's
\* loss alone, whatever trainStep() and generate() calls came before.
ThmC25_GradientsZeroedEachStep ==
  [][ \A k \in Objects :
        /\ Constructed(k)'
           => \A i \in 1..Len(inst'[k].params) : inst'[k].params[i].grad = R(0)
        /\ (Constructed(k) /\ inst'[k].step = inst[k].step + 1)
           => \E g \in {StepGradient(inst[k])} :
                /\ inst'[k].m = [i \in 1..Len(g) |-> mNext(inst[k].m[i], g[i])]
                /\ inst'[k].v = [i \in 1..Len(g) |-> vNext(inst[k].v[i], g[i])] ]_vars

\* A model has made a second step, a generate() between the two, and the
\* first step left moments that are not 0.
WitC25_SecondStepAfterGenerate ==
  /\ Constructed("A")
  /\ inst["A"].calls = << [op |-> "trainStep"], [op |-> "generate"], [op |-> "trainStep"] >>
  /\ \E i \in 1..Len(inst["A"].m) : inst["A"].m[i] # R(0)

InitGpt == GptInit /\ ADIdle /\ RngIdle

SpecGPT == InitGpt /\ [][GptNext]_vars

InitInst ==
  /\ InstInit
  /\ nodes = <<>>
  /\ built = NoCall
  /\ pass = [count |-> 0, root |-> 0, gen |-> 0, prevRoot |-> 0, prevGen |-> 0,
             pre |-> <<>>, topo |-> <<>>]
  /\ TokIdle
  /\ RngIdle
  /\ step = 0
  /\ ncalls = 0
  /\ ntrain = 0
  /\ gptCall = NoCall
  /\ UIIdle

SpecInst == InitInst /\ [][InstNext]_vars

---------------------------------------------------------------------------
(* gpt.ts:13-62  the Mersenne Twister, on words of MTW bits and a state of *)
(* MTN words in place of 32 and 624.  The multipliers are those of the     *)
(* code, taken modulo the word; the tempering shifts and masks and the     *)
(* twist matrix are the leading bits of those of the code.  The operators  *)
(* of JavaScript keep their signs: ^ & | << answer a signed word, >>> an   *)
(* unsigned one, and a store into the Uint32Array takes the value modulo    *)
(* the word.                                                                *)

MTW == 4
MTN == 3
MTM == 2
MatrixA == 9
TemperU == 1
TemperS == 1
TemperB == 9
TemperT == 2
TemperC == 14
TemperL == 2
MTMod == Pow2(MTW)

\* x >>> 0, and a store into a Uint32Array
ToUint32(x) == x % MTMod

\* the signed word of the bitwise operators
ToInt32(x) == LET w == x % MTMod IN IF w >= MTMod \div 2 THEN w - MTMod ELSE w

RECURSIVE BitXor(_, _)
BitXor(a, b) ==
  IF a = 0 THEN b ELSE IF b = 0 THEN a
  ELSE ((a + b) % 2) + 2 * BitXor(a \div 2, b \div 2)

RECURSIVE BitAnd(_, _)
BitAnd(a, b) ==
  IF a = 0 \/ b = 0 THEN 0
  ELSE ((a % 2) * (b % 2)) + 2 * BitAnd(a \div 2, b \div 2)

\* a ^ b, a & b, a | b, a >>> k, a << k, Math.imul(a, b)
xor(a, b) == ToInt32(BitXor(ToUint32(a), ToUint32(b)))
and(a, b) == ToInt32(BitAnd(ToUint32(a), ToUint32(b)))
or(a, b) == ToInt32(ToUint32(a) + ToUint32(b) - BitAnd(ToUint32(a), ToUint32(b)))
shr(a, k) == ToUint32(a) \div Pow2(k)
shl(a, k) == ToInt32(ToUint32(a) * Pow2(k))
imul(a, b) == ToInt32(ToUint32(a) * ToUint32(b))

\* gpt.ts:23  u: (a, b) => Math.imul(a, b) >>> 0
umul(a, b) == ToUint32(imul(a, b))

\* A key whose words are taken most significant first
RECURSIVE keyWordsBigEndian(_)
keyWordsBigEndian(v) ==
  IF v > 0 THEN keyWordsBigEndian(v \div MTMod) \o <<and(v, MTMod - 1)>> ELSE <<>>

\* gpt.ts:25  for (v = n || 0; v > 0; v = floor(v / 2^32)) key.push(v & 0xffffffff)
RECURSIVE keyWords(_)
keyWords(v) ==
  IF v > 0 THEN <<and(v, MTMod - 1)>> \o keyWords(v \div MTMod) ELSE <<>>

\* gpt.ts:28-31  mt[0] = 19650218 and the linear recurrence; mt[k] is mt[k + 1] here
RECURSIVE initGenrand(_, _)
initGenrand(mt, idx) ==
  IF idx >= MTN THEN mt
  ELSE initGenrand(
         [mt EXCEPT ![idx + 1] =
            ToUint32(umul(1812433253, xor(mt[idx], shr(mt[idx], MTW - 2))) + idx)],
         idx + 1)

\* gpt.ts:34-38  the loop over the key: k rounds from i, j
RECURSIVE keyLoop(_, _, _, _, _)
keyLoop(mt, key, i, j, k) ==
  IF k <= 0 THEN [mt |-> mt, i |-> i]
  ELSE LET mt1 == IF i >= MTN THEN [mt EXCEPT ![1] = mt[MTN]] ELSE mt
           i1 == IF i >= MTN THEN 1 ELSE i
           j1 == IF j >= Len(key) THEN 0 ELSE j
       IN keyLoop(
            [mt1 EXCEPT ![i1 + 1] =
               ToUint32(xor(mt1[i1 + 1],
                            umul(xor(mt1[i1], shr(mt1[i1], MTW - 2)), 1664525))
                        + key[j1 + 1] + j1)],
            key, i1 + 1, j1 + 1, k - 1)

\* gpt.ts:39-42  the second loop: k rounds from i
RECURSIVE indexLoop(_, _, _)
indexLoop(mt, i, k) ==
  IF k <= 0 THEN mt
  ELSE LET mt1 == IF i >= MTN THEN [mt EXCEPT ![1] = mt[MTN]] ELSE mt
           i1 == IF i >= MTN THEN 1 ELSE i
       IN indexLoop(
            [mt1 EXCEPT ![i1 + 1] =
               ToUint32(xor(mt1[i1 + 1],
                            umul(xor(mt1[i1], shr(mt1[i1], MTW - 2)), 1566083941))
                        - i1)],
            i1 + 1, k - 1)

\* gpt.ts:14-16  the fields of a new object, before the constructor seeds it
mtNew == [mt |-> [k \in 1..MTN |-> 0], idx |-> MTN + 1, gaussNext |-> <<>>]

\* gpt.ts:22-46  MersenneTwister.seed, on the object as it is
mtSeed(g, n) ==
  LET key0 == keyWords(n)
      key == IF Len(key0) = 0 THEN <<0>> ELSE key0
      mt0 == initGenrand([g.mt EXCEPT ![1] = ToUint32(19650218)], 1)
      a == keyLoop(mt0, key, 1, 0, IF MTN > Len(key) THEN MTN ELSE Len(key))
      mt2 == indexLoop(a.mt, a.i, MTN - 1)
  IN [mt |-> [mt2 EXCEPT ![1] = Pow2(MTW - 1)], idx |-> MTN, gaussNext |-> <<>>]

\* gpt.ts:50-53  the twist, in place, from word k on
RECURSIVE twist(_, _)
twist(mt, k) ==
  IF k >= MTN THEN mt
  ELSE LET y == or(and(mt[k + 1], Pow2(MTW - 1)),
                   and(mt[((k + 1) % MTN) + 1], Pow2(MTW - 1) - 1))
       IN twist([mt EXCEPT ![k + 1] =
                   ToUint32(xor(xor(mt[((k + MTM) % MTN) + 1], shr(y, 1)),
                                IF and(y, 1) # 0 THEN MatrixA ELSE 0))],
                k + 1)

\* gpt.ts:57-61  the tempering of a word
temper(y0) ==
  LET y1 == xor(y0, shr(y0, TemperU))
      y2 == xor(y1, and(shl(y1, TemperS), TemperB))
      y3 == xor(y2, and(shl(y2, TemperT), TemperC))
      y4 == xor(y3, shr(y3, TemperL))
  IN ToUint32(y4)

\* gpt.ts:48-62  MersenneTwister.int32: the word and the generator after it
mtInt32(g) ==
  LET mt == IF g.idx >= MTN THEN twist(g.mt, 0) ELSE g.mt
      idx == IF g.idx >= MTN THEN 0 ELSE g.idx
  IN [y |-> temper(mt[idx + 1]), rng |-> [g EXCEPT !.mt = mt, !.idx = idx + 1]]

\* rng.before: the words drawn under the seed before this one.
\* The seeds: one word with and without its top bit, none, two words, and more
\* words than the state has.
MTSeeds == 0..(MTMod + 1) \cup {MTMod * MTMod - 1, MTMod * MTMod,
                                MTMod * MTMod * MTMod, MTMod * MTMod * MTMod * MTMod + MTMod - 1}

MaxDraws == 7       \* int32() calls after a seed()

\* gpt.ts:18-20  new MersenneTwister(seed)
MTInit ==
  /\ \E n \in MTSeeds :
       /\ rng = [code |-> mtSeed(mtNew, n), seed |-> n, drawn |-> 0, before |-> 0]
       /\ rngCall = [op |-> "seed", n |-> n, y |-> 0]

MTFrame == UNCHANGED <<adVars, tokVars, gptVars, inst, uiVars>>

MTSeed ==
  /\ \E n \in MTSeeds :
       /\ rng' = [code |-> mtSeed(rng.code, n), seed |-> n, drawn |-> 0,
                 before |-> rng.drawn]
       /\ rngCall' = [op |-> "seed", n |-> n, y |-> 0]
  /\ MTFrame

MTInt32 ==
  /\ rng.drawn < MaxDraws
  /\ \E w \in {mtInt32(rng.code)} :
       /\ rng' = [rng EXCEPT !.code = w.rng, !.drawn = @ + 1]
       /\ rngCall' = [op |-> "int32", n |-> rng.seed, y |-> w.y]
  /\ MTFrame

MTNext == MTSeed \/ MTInt32

---------------------------------------------------------------------------
(* The reference: MT19937 of Matsumoto and Nishimura (init_genrand,        *)
(* init_by_array, genrand_int32) in unsigned arithmetic modulo the word,   *)
(* with the key Python's random.seed makes of an integer: the words of its *)
(* magnitude, least significant first, one word 0 for 0.                   *)

MulMod(a, b) == ((a % MTMod) * (b % MTMod)) % MTMod

RECURSIVE RefKeyWords(_)
RefKeyWords(n) == IF n = 0 THEN <<>> ELSE <<n % MTMod>> \o RefKeyWords(n \div MTMod)

RefKey(n) == IF n = 0 THEN <<0>> ELSE RefKeyWords(n)

RECURSIVE RefInitGenrand(_, _)
RefInitGenrand(mt, i) ==
  IF i >= MTN THEN mt
  ELSE RefInitGenrand(
         [mt EXCEPT ![i + 1] =
            (MulMod(1812433253, BitXor(mt[i], mt[i] \div Pow2(MTW - 2))) + i) % MTMod],
         i + 1)

RECURSIVE RefKeyLoop(_, _, _, _, _)
RefKeyLoop(mt, key, i, j, k) ==
  IF k = 0 THEN [mt |-> mt, i |-> i]
  ELSE LET mt1 == [mt EXCEPT ![i + 1] =
                     (BitXor(mt[i + 1],
                             MulMod(BitXor(mt[i], mt[i] \div Pow2(MTW - 2)), 1664525))
                      + key[j + 1] + j) % MTMod]
           wrap == i + 1 >= MTN
       IN RefKeyLoop(IF wrap THEN [mt1 EXCEPT ![1] = mt1[MTN]] ELSE mt1,
                     key,
                     IF wrap THEN 1 ELSE i + 1,
                     IF j + 1 >= Len(key) THEN 0 ELSE j + 1,
                     k - 1)

RECURSIVE RefIndexLoop(_, _, _)
RefIndexLoop(mt, i, k) ==
  IF k = 0 THEN mt
  ELSE LET mt1 == [mt EXCEPT ![i + 1] =
                     (BitXor(mt[i + 1],
                             MulMod(BitXor(mt[i], mt[i] \div Pow2(MTW - 2)), 1566083941))
                      - i) % MTMod]
           wrap == i + 1 >= MTN
       IN RefIndexLoop(IF wrap THEN [mt1 EXCEPT ![1] = mt1[MTN]] ELSE mt1,
                       IF wrap THEN 1 ELSE i + 1,
                       k - 1)

\* init_by_array(key); the index of the next word is MTN
RefSeed(n) ==
  LET key == RefKey(n)
      mt0 == RefInitGenrand([k \in 1..MTN |-> IF k = 1 THEN 19650218 % MTMod ELSE 0], 1)
      a == RefKeyLoop(mt0, key, 1, 0, IF MTN > Len(key) THEN MTN ELSE Len(key))
      mt2 == RefIndexLoop(a.mt, a.i, MTN - 1)
  IN [mt |-> [mt2 EXCEPT ![1] = Pow2(MTW - 1)], mti |-> MTN]

\* One word of the twist: mt[kk] from mt[kk], mt[next] and mt[far]
RefTwistWord(mt, kk, next, far) ==
  LET y == ((mt[kk + 1] \div Pow2(MTW - 1)) * Pow2(MTW - 1)) + (mt[next + 1] % Pow2(MTW - 1))
  IN [mt EXCEPT ![kk + 1] =
        BitXor(BitXor(mt[far + 1], y \div 2), IF y % 2 = 1 THEN MatrixA ELSE 0)]

\* The three loops of genrand_int32: kk < N-M, kk < N-1, and the last word
RECURSIVE RefTwist(_, _)
RefTwist(mt, kk) ==
  IF kk < MTN - MTM THEN RefTwist(RefTwistWord(mt, kk, kk + 1, kk + MTM), kk + 1)
  ELSE IF kk < MTN - 1 THEN RefTwist(RefTwistWord(mt, kk, kk + 1, kk + MTM - MTN), kk + 1)
  ELSE RefTwistWord(mt, MTN - 1, 0, MTM - 1)

RefTemper(y0) ==
  LET y1 == BitXor(y0, y0 \div Pow2(TemperU))
      y2 == BitXor(y1, BitAnd((y1 * Pow2(TemperS)) % MTMod, TemperB))
      y3 == BitXor(y2, BitAnd((y2 * Pow2(TemperT)) % MTMod, TemperC))
  IN BitXor(y3, y3 \div Pow2(TemperL))

\* genrand_int32
RefInt32(r) ==
  LET mt == IF r.mti >= MTN THEN RefTwist(r.mt, 0) ELSE r.mt
      mti == IF r.mti >= MTN THEN 0 ELSE r.mti
  IN [y |-> RefTemper(mt[mti + 1]), ref |-> [mt |-> mt, mti |-> mti + 1]]

\* The reference after seed n and k words, and the k-th word (0 for k = 0)
RECURSIVE RefAfter(_, _)
RefAfter(n, k) ==
  IF k = 0 THEN [y |-> 0, ref |-> RefSeed(n)] ELSE RefInt32(RefAfter(n, k - 1).ref)

\* C23: for every seed n, seed(n) and then k calls of int32() give the k words
\* of the reference, each a word of MTW bits, and leave the state of the
\* reference; what was drawn, or cached, before seed(n) makes no difference.
ThmC23_MatchesReference ==
  \E r \in {RefAfter(rng.seed, rng.drawn)} :
    /\ rng.code.mt = r.ref.mt
    /\ rng.code.idx = r.ref.mti
    /\ rng.code.gaussNext = <<>>
    /\ rngCall.y = r.y
    /\ rngCall.y \in 0..(MTMod - 1)
    /\ rngCall.op = "seed" => rng.code = mtSeed(mtNew, rng.seed)

\* A generator seeded again, with a seed of two words, after draws under
\* another seed, has twisted its state twice since.
WitC23_ReseededTwoWordsTwisted ==
  /\ rng # <<>>
  /\ rng.seed = MTMod * MTMod - 1
  /\ rng.before > MTN
  /\ rng.drawn = 2 * MTN + 1
  /\ rngCall.op = "int32"

InitMT == MTInit /\ ADIdle /\ TokIdle /\ GptIdle

SpecMT == InitMT /\ [][MTNext]_vars

---------------------------------------------------------------------------
(* gpt.ts:64-102  one generator object and its callers: gauss(), random(), *)
(* shuffle() and choices() in any order.  The words come from the          *)
(* congruential generator of the model objects; idx counts the words       *)
(* drawn, two to a uniform number.                                          *)

MaxRngCalls == 5    \* calls made on the generator in one behaviour

\* The arrays given to shuffle(), by their length.
ShuffleLens == 0..3

\* The weights given to choices().
ChoiceWeights == {<<R(1)>>, <<R(1), R(2)>>}

GaussInit ==
  /\ \E n \in Seeds : rng = [code |-> seed(n), calls |-> 0]
  /\ rngCall = NoCall

\* The generator after a call, and the call.
RngCalled(g, call) ==
  /\ rng.calls < MaxRngCalls
  /\ rng' = [code |-> g, calls |-> rng.calls + 1]
  /\ rngCall' = call
  /\ MTFrame

GaussCall ==
  \E r \in {gauss(rng.code)} :
    RngCalled(r.rng, [op |-> "gauss", z |-> r.z])

RandomCall ==
  \E r \in {random(rng.code)} :
    RngCalled(r.rng, [op |-> "random", z |-> r.u])

ShuffleCall ==
  \E n \in ShuffleLens :
    \E r \in {shuffle([i \in 1..n |-> i], n - 1, rng.code)} :
      RngCalled(r.rng, [op |-> "shuffle", z |-> r.arr])

\* gpt.ts:95  choices() draws its number with random()
ChoicesCall ==
  \E w \in ChoiceWeights :
    \E r \in {random(rng.code)} :
      RngCalled(r.rng, [op |-> "choices", z |-> choices(TokenPool(Len(w)), w, r.u)])

GaussNext == GaussCall \/ RandomCall \/ ShuffleCall \/ ChoicesCall

\* C24: a gauss() call on an empty cache draws exactly two uniform numbers
\* (four words) and stores a second sample; a gauss() call on a full cache
\* draws nothing, returns the stored sample and empties the cache; random(),
\* shuffle() and choices() leave the cache as it is.
ThmC24_GaussInPairs ==
  [][ /\ (rngCall'.op = "gauss" /\ rng.code.gaussNext = <<>>)
         => /\ rng'.code.idx = rng.code.idx + 4
            /\ Len(rng'.code.gaussNext) = 1
      /\ (rngCall'.op = "gauss" /\ rng.code.gaussNext # <<>>)
         => /\ rng'.code.idx = rng.code.idx
            /\ rng'.code.mt = rng.code.mt
            /\ rngCall'.z = rng.code.gaussNext[1]
            /\ rng'.code.gaussNext = <<>>
      /\ rngCall'.op \in {"random", "shuffle", "choices"}
         => rng'.code.gaussNext = rng.code.gaussNext ]_vars

\* The second gauss() of a pair has just returned the stored sample, with words
\* drawn by other calls since the first.
WitC24_SecondOfPairAfterOtherCalls ==
  /\ rng # <<>>
  /\ rngCall.op = "gauss"
  /\ rng.calls >= 3
  /\ rng.code.gaussNext = <<>>
  /\ rng.code.idx > 4
  /\ rng.code.idx % 4 # 0

InitGauss == GaussInit /\ ADIdle /\ TokIdle /\ GptIdle

SpecGauss == InitGauss /\ [][GaussNext]_vars

---------------------------------------------------------------------------
(* Non-finite numbers in the engine: a caller builds nodes from leaves that *)
(* include 0 and a negative number, with log() and div() among the          *)
(* operations, and every node remembers nothing of how it was made but its  *)
(* children; `built` keeps the operation of the latest node.                *)

MaxNumNodes == 3    \* Value objects constructed in one behaviour with log()

\* The data of the leaves and the plain-number operands: negative, zero, positive.
NumData == {R(-1), R(0), R(2)}

\* Math.log on doubles: NaN below 0, -Infinity at 0, and for a positive number
\* the floor of its binary logarithm stands for the finite result.
RLog(a) ==
  IF IsNaN(a) THEN NaN
  ELSE IF IsInf(a) THEN (IF a.n > 0 THEN PosInf ELSE NaN)
  ELSE IF a.n < 0 THEN NaN
  ELSE IF a.n = 0 THEN NegInf
  ELSE IF a.n >= a.d THEN R(BitLen(a.n \div a.d) - 1)
  ELSE R(-BitLen((a.d - 1) \div a.n))

\* value.ts:43-45
log(ns, a) == New(ns, Value(RLog(ns[a].data), <<a>>, <<RInv(ns[a].data)>>))

NumRoom(k) == Len(nodes) + k <= MaxNumNodes

\* A node is constructed by operation op on operand a and, where there is one,
\* on node or number b.
Made(ns, op, a, b) ==
  /\ nodes' = ns
  /\ built' = [op |-> op, a |-> a, b |-> b]
  /\ UNCHANGED <<_gen, pass>>
  /\ ADFrame

NumLeaf == \E d \in NumData : NumRoom(1) /\ Made(New(nodes, Value(d, <<>>, <<>>)), "leaf", d, 0)
NumLog == \E a \in Slots : NumRoom(1) /\ Made(log(nodes, a), "log", a, 0)
NumDiv == \E a, b \in Slots : NumRoom(2) /\ Made(div(nodes, a, b), "div", a, b)
NumDivNum == \E a \in Slots, k \in NumData : NumRoom(1) /\ Made(divNum(nodes, a, k), "divNum", a, k)
NumAdd == \E a, b \in Slots : NumRoom(1) /\ Made(add(nodes, a, b), "add", a, b)
NumMul == \E a, b \in Slots : NumRoom(1) /\ Made(mul(nodes, a, b), "mul", a, b)
NumMulNum == \E a \in Slots, k \in NumData : NumRoom(1) /\ Made(mulNum(nodes, a, k), "mulNum", a, k)
NumPow == \E a \in Slots, e \in PowExps : NumRoom(1) /\ Made(pow(nodes, a, e), "pow", a, e)
NumRelu == \E a \in Slots : NumRoom(1) /\ Made(relu(nodes, a), "relu", a, 0)
NumNeg == \E a \in Slots : NumRoom(1) /\ Made(neg(nodes, a), "neg", a, 0)

NumNext ==
  \/ NumLeaf \/ NumLog \/ NumDiv \/ NumDivNum
  \/ NumAdd \/ NumMul \/ NumMulNum \/ NumPow \/ NumRelu \/ NumNeg

\* The latest node.
Last == nodes[Len(nodes)]

\* Node v has a child whose value is NaN.
NaNChild(v) ==
  \/ nodes[v].nch >= 1 /\ IsNaN(nodes[nodes[v].c0].data)
  \/ nodes[v].nch = 2 /\ IsNaN(nodes[nodes[v].c1].data)

\* The value of every node built from a NaN is NaN.
NaNPropagates == \A v \in Slots : NaNChild(v) => IsNaN(nodes[v].data)

\* C22: log() of a node whose value is <= 0, and div() by a node or a number
\* whose value is 0, construct a node (nothing is raised) whose value is NaN,
\* and every node built from a NaN is NaN.
CexC22_NumericErrorsAreNaN ==
  /\ (built.op = "log" /\ ~RGt(nodes[built.a].data, R(0))) => IsNaN(Last.data)
  /\ (built.op = "div" /\ IsZero(nodes[built.b].data)) => IsNaN(Last.data)
  /\ (built.op = "divNum" /\ IsZero(built.b)) => IsNaN(Last.data)
  /\ NaNPropagates

InitNum == ADInit /\ TokIdle /\ RngIdle /\ GptIdle

SpecNum == InitNum /\ [][NumNext]_vars

---------------------------------------------------------------------------
(* The page.  One GPTModel (part_001:15) is handed to TrainingStepper,     *)
(* TokenFlow and TemperatureControl; their handlers run as tasks of one    *)
(* browser event loop.  A click handler, a timeout callback and an         *)
(* animation-frame callback are each one task.  A callback that calls      *)
(* trainStep() is split at the places where trainStep() reads and writes   *)
(* the model: the forward pass, each parameter's Adam update and the       *)
(* increment of the step counter, so that a second callback starting       *)
(* between two of them would be seen.  model.upd counts the parameters the *)
(* Adam loop of the call in flight has rewritten.  The loss a trainStep()  *)
(* returns is any of Losses; the numbers of the network are not part of    *)
(* this component.  An animation frame runs every callback registered      *)
(* before it began, one after the other, and nothing else in between.      *)

MaxUISteps == 3     \* trainStep() calls the page makes in one behaviour
MaxLoops == 2       \* loop callbacks waiting for one animation frame

UIParams == 2       \* parameters the Adam loop of trainStep() walks (gpt.ts:405)

\* AttentionHeatmap.tsx:145-151  stages.length
NumStages == 5

\* TrainingStepper.tsx:155-158 offers 1, 5, 10 and 25.
BatchSizes == {1, 2}

\* TrainingStepper.tsx:29, 181-187  null ("never") or a loss to stop at.
Never == [n |-> 0, d |-> -1]
TargetOptions == {Never, R(1)}

\* TrainingStepper.tsx:31  stoppedReason "", as a value of the loss type
NoReason == [n |-> 0, d |-> -2]

\* The losses trainStep() may return: below, at and above the target, and NaN.
Losses == {Frac(1, 2), R(1), R(2), NaN}

NoTask == [kind |-> "none", pc |-> "", left |-> 0, loss |-> NaN]

\* TrainingStepper.tsx:24-31, TemperatureControl.tsx:13, AttentionHeatmap.tsx:157
UIMounted ==
  [isTraining |-> FALSE, autoTrain |-> FALSE, autoTrainRef |-> FALSE,
   batchSize |-> 1, targetLossRef |-> Never, stoppedReason |-> NoReason,
   isGenerating |-> FALSE, isFlowing |-> FALSE]

\* gpt.ts:363-423, 426-481  trainStep(), generate() and generateBatch() are
\* synchronous: no await, no yield, no callback.  The browser starts a task
\* only when no task is running.
dispatchAnyTime(task) == TRUE
runToCompletion(task) == task = NoTask

\* A handler or callback may start.
Ready ==
  /\ ui # <<>>
  /\ runToCompletion(eventLoop.task)
  /\ eventLoop.frameLeft = 0

\* gpt.ts:436-447  generate() reads every parameter; it writes none.
Observe(who) ==
  seen' = [seen EXCEPT !.torn = @ \/ model.upd # 0, !.lastReader = who]

UIFrame == UNCHANGED <<adVars, tokVars, rngVars, gptVars, inst>>

UIInit ==
  /\ ui = UIMounted
  /\ eventLoop = [timers |-> {}, raf |-> 0, frameLeft |-> 0, task |-> NoTask]
  /\ model = [step |-> 0, upd |-> 0]
  /\ seen = [torn |-> FALSE, lastReader |-> "none", frameSteps |-> 0,
             userStopped |-> FALSE, targetReached |-> FALSE,
             loopFailed |-> FALSE, batchFailed |-> FALSE]

\* TrainingStepper.tsx:153-161  the batch select
SelectBatchSize(b) ==
  /\ Ready
  /\ ui.batchSize # b
  /\ ui' = [ui EXCEPT !.batchSize = b]
  /\ UNCHANGED <<eventLoop, model, seen>>
  /\ UIFrame

\* TrainingStepper.tsx:166-173  the stop-at-loss select
SelectTargetLoss(t) ==
  /\ Ready
  /\ ui.targetLossRef # t
  /\ ui' = [ui EXCEPT !.targetLossRef = t]
  /\ UNCHANGED <<eventLoop, model, seen>>
  /\ UIFrame

\* TrainingStepper.tsx:58-67, 131  handleStep, up to its setTimeout
HandleStep ==
  /\ Ready
  /\ ~(ui.isTraining \/ ui.autoTrain)
  /\ ui' = [ui EXCEPT !.isTraining = TRUE, !.stoppedReason = NoReason]
  /\ eventLoop' = [eventLoop EXCEPT !.timers =
                     @ \cup {[kind |-> "step", arg |-> ui.batchSize]}]
  /\ seen' = [seen EXCEPT !.batchFailed = FALSE]
  /\ UNCHANGED model
  /\ UIFrame

\* TrainingStepper.tsx:42-45
stopAutoTrain(u) == [u EXCEPT !.autoTrainRef = FALSE, !.autoTrain = FALSE]

\* TrainingStepper.tsx:69-78, 94  handleAutoTrain: Stop when running, else Auto
HandleAutoTrain ==
  /\ Ready
  /\ IF ui.autoTrainRef
       THEN /\ ui' = stopAutoTrain(ui)
            /\ seen' = [seen EXCEPT !.userStopped = TRUE]
            /\ UNCHANGED eventLoop
       ELSE /\ eventLoop.raf < MaxLoops
            /\ ui' = [ui EXCEPT !.autoTrainRef = TRUE, !.autoTrain = TRUE,
                                !.stoppedReason = NoReason]
            /\ eventLoop' = [eventLoop EXCEPT !.raf = @ + 1]
            /\ seen' = [seen EXCEPT !.userStopped = FALSE,
                                    !.targetReached = FALSE,
                                    !.loopFailed = FALSE]
  /\ UNCHANGED model
  /\ UIFrame

\* TemperatureControl.tsx:17-19, 82  handleGenerate, up to its setTimeout
HandleGenerate ==
  /\ Ready
  /\ ~ui.isGenerating
  /\ ui' = [ui EXCEPT !.isGenerating = TRUE]
  /\ eventLoop' = [eventLoop EXCEPT !.timers = @ \cup {[kind |-> "generate", arg |-> 0]}]
  /\ UNCHANGED <<model, seen>>
  /\ UIFrame

\* AttentionHeatmap.tsx:161-175, 207, 238  handleFlow, up to its setTimeout
HandleFlow ==
  /\ Ready
  /\ ~ui.isFlowing
  /\ ui' = [ui EXCEPT !.isFlowing = TRUE]
  /\ eventLoop' = [eventLoop EXCEPT !.timers = @ \cup {[kind |-> "advanceStage", arg |-> 1]}]
  /\ UNCHANGED <<model, seen>>
  /\ UIFrame

\* TrainingStepper.tsx:61  the timeout of handleStep fires: i = 0
StepTimeout ==
  /\ Ready
  /\ \E t \in eventLoop.timers :
       /\ t.kind = "step"
       /\ eventLoop' = [eventLoop EXCEPT
            !.timers = @ \ {t},
            !.task = [kind |-> "step", pc |-> "for", left |-> t.arg, loss |-> NaN]]
  /\ UNCHANGED <<ui, model, seen>>
  /\ UIFrame

\* TrainingStepper.tsx:62-65  for (i < batchSize) doStep(); setIsTraining(false)
StepFor ==
  /\ ui # <<>>
  /\ eventLoop.task.kind = "step"
  /\ eventLoop.task.pc \in {"for", "returned"}
  /\ IF eventLoop.task.left > 0
       THEN /\ eventLoop' = [eventLoop EXCEPT !.task.pc = "forward",
                                              !.task.left = @ - 1]
            /\ UNCHANGED ui
       ELSE /\ eventLoop' = [eventLoop EXCEPT !.task = NoTask]
            /\ ui' = [ui EXCEPT !.isTraining = FALSE]
  /\ UNCHANGED <<model, seen>>
  /\ UIFrame

\* TemperatureControl.tsx:20-25  the timeout of handleGenerate: generateBatch(8, t)
GenerateTimeout ==
  /\ Ready
  /\ \E t \in eventLoop.timers :
       /\ t.kind = "generate"
       /\ eventLoop' = [eventLoop EXCEPT !.timers = @ \ {t}]
  /\ Observe("generateBatch")
  /\ ui' = [ui EXCEPT !.isGenerating = FALSE]
  /\ UNCHANGED model
  /\ UIFrame

\* AttentionHeatmap.tsx:177-205  advanceStage: the next stage, or the timeout
\* that generates
AdvanceStage ==
  /\ Ready
  /\ \E t \in eventLoop.timers :
       /\ t.kind = "advanceStage"
       /\ eventLoop' = [eventLoop EXCEPT !.timers = (@ \ {t}) \cup
            {IF t.arg >= NumStages
               THEN [kind |-> "flowGenerate", arg |-> 0]
               ELSE [kind |-> "advanceStage", arg |-> t.arg + 1]}]
  /\ UNCHANGED <<ui, model, seen>>
  /\ UIFrame

\* AttentionHeatmap.tsx:181-195  the timeout that calls generate(0.5, 8)
FlowGenerate ==
  /\ Ready
  /\ \E t \in eventLoop.timers :
       /\ t.kind = "flowGenerate"
       /\ eventLoop' = [eventLoop EXCEPT !.timers = @ \ {t}]
  /\ Observe("generate")
  /\ ui' = [ui EXCEPT !.isFlowing = FALSE]
  /\ UNCHANGED model
  /\ UIFrame

\* An animation frame begins: the callbacks registered so far are its list.
AnimationFrame ==
  /\ Ready
  /\ eventLoop.raf > 0
  /\ eventLoop' = [eventLoop EXCEPT !.frameLeft = eventLoop.raf, !.raf = 0]
  /\ seen' = [seen EXCEPT !.frameSteps = 0]
  /\ UNCHANGED <<ui, model>>
  /\ UIFrame

\* The frame calls the next loop() of its list.
FrameCallback ==
  /\ ui # <<>>
  /\ runToCompletion(eventLoop.task)
  /\ eventLoop.frameLeft > 0
  /\ eventLoop' = [eventLoop EXCEPT
       !.frameLeft = @ - 1,
       !.task = [kind |-> "loop", pc |-> "check", left |-> 0, loss |-> NaN]]
  /\ UNCHANGED <<ui, model, seen>>
  /\ UIFrame

\* TrainingStepper.tsx:80  if (!autoTrainRef.current) return
loopUnguarded(ref) == TRUE
loopGuard(ref) == ref

\* TrainingStepper.tsx:79-81  loop(), up to its doStep()
LoopCheck ==
  /\ ui # <<>>
  /\ eventLoop.task.kind = "loop"
  /\ eventLoop.task.pc = "check"
  /\ IF loopGuard(ui.autoTrainRef)
       THEN /\ eventLoop' = [eventLoop EXCEPT !.task.pc = "forward"]
            /\ seen' = [seen EXCEPT !.frameSteps = @ + 1]
       ELSE /\ eventLoop' = [eventLoop EXCEPT !.task = NoTask]
            /\ UNCHANGED seen
  /\ UNCHANGED <<ui, model>>
  /\ UIFrame

\* TrainingStepper.tsx:48, gpt.ts:363-399  doStep(): trainStep(5000) runs its
\* forward passes over the parameters, and backward(); the loss is fixed here
TrainForward ==
  /\ ui # <<>>
  /\ eventLoop.task.pc = "forward"
  /\ model.step < MaxUISteps
  /\ \E loss \in Losses :
       eventLoop' = [eventLoop EXCEPT !.task.pc = "adam", !.task.loss = loss]
  /\ Observe(eventLoop.task.kind)
  /\ UNCHANGED <<ui, model>>
  /\ UIFrame

\* gpt.ts:375-399, value.ts:72-78  trainStep() raises before its Adam loop (the
\* recursion of buildTopo exhausts the stack, or the graph the memory): nothing
\* catches it in doStep(), in the timeout or in loop(), so the callback ends
\* there, before setIsTraining(false) and before requestAnimationFrame(loop)
TrainRaises ==
  /\ ui # <<>>
  /\ eventLoop.task.pc = "forward"
  /\ eventLoop' = [eventLoop EXCEPT !.task = NoTask]
  /\ seen' = [seen EXCEPT
       !.torn = @ \/ model.upd # 0,
       !.lastReader = eventLoop.task.kind,
       !.loopFailed = @ \/ eventLoop.task.kind = "loop",
       !.batchFailed = @ \/ eventLoop.task.kind = "step"]
  /\ UNCHANGED <<ui, model>>
  /\ UIFrame

\* gpt.ts:405-413  the Adam loop rewrites one parameter and its moments
AdamParam ==
  /\ ui # <<>>
  /\ eventLoop.task.pc = "adam"
  /\ model.upd < UIParams
  /\ model' = [model EXCEPT !.upd = @ + 1]
  /\ UNCHANGED <<ui, eventLoop, seen>>
  /\ UIFrame

\* gpt.ts:415-422  this.step++, and the result is returned
StepIncrement ==
  /\ ui # <<>>
  /\ eventLoop.task.pc = "adam"
  /\ model.upd = UIParams
  /\ model' = [step |-> model.step + 1, upd |-> 0]
  /\ eventLoop' = [eventLoop EXCEPT !.task.pc = "returned"]
  /\ UNCHANGED <<ui, seen>>
  /\ UIFrame

\* TrainingStepper.tsx:84  result.loss <= tl, on doubles: false for NaN
lossReached(loss, tl) == ~IsNaN(loss) /\ ~RGt(loss, tl)

\* TrainingStepper.tsx:83-91  loop(), after its doStep()
LoopDecide ==
  /\ ui # <<>>
  /\ eventLoop.task.kind = "loop"
  /\ eventLoop.task.pc = "returned"
  /\ IF ui.targetLossRef # Never /\ lossReached(eventLoop.task.loss, ui.targetLossRef)
       THEN /\ ui' = [stopAutoTrain(ui) EXCEPT !.stoppedReason = ui.targetLossRef]
            /\ eventLoop' = [eventLoop EXCEPT !.task = NoTask]
            /\ seen' = [seen EXCEPT !.targetReached = TRUE]
       ELSE /\ eventLoop' = [eventLoop EXCEPT !.task = NoTask, !.raf = @ + 1]
            /\ UNCHANGED <<ui, seen>>
  /\ UNCHANGED model
  /\ UIFrame

UINext ==
  \/ \E b \in BatchSizes : SelectBatchSize(b)
  \/ \E t \in TargetOptions : SelectTargetLoss(t)
  \/ HandleStep
  \/ HandleAutoTrain
  \/ HandleGenerate
  \/ HandleFlow
  \/ StepTimeout
  \/ StepFor
  \/ GenerateTimeout
  \/ AdvanceStage
  \/ FlowGenerate
  \/ AnimationFrame
  \/ FrameCallback
  \/ LoopCheck
  \/ TrainForward
  \/ TrainRaises
  \/ AdamParam
  \/ StepIncrement
  \/ LoopDecide

---------------------------------------------------------------------------
(* Claims about the page *)

\* C18: under every interleaving of the Step, Auto/Stop, Generate and Flow
\* callbacks, no generate()/generateBatch() call and no trainStep() call reads
\* the model while only part of one step's Adam update has been applied.
ThmC18_TrainStepAtomic == seen.torn = FALSE

\* generateBatch() has just run between two frames of a running auto-train
\* loop, after a step, with the timeout of a Step click still pending.
WitC18_GenerateBetweenFrames ==
  /\ seen.lastReader = "generateBatch"
  /\ model.step >= 1
  /\ ui.autoTrainRef
  /\ eventLoop.raf > 0
  /\ \E t \in eventLoop.timers : t.kind = "step"

\* loop() goes on to its doStep().
LoopIssuesTrainStep ==
  /\ eventLoop.task.kind = "loop"
  /\ eventLoop.task.pc = "check"
  /\ eventLoop'.task.pc = "forward"

\* The user presses Stop.
UserStops == ~seen.userStopped /\ seen'.userStopped

\* C19: when the user stops auto-training no step is cut short (none is in
\* flight, the model is whole and stays as it is), and from then on loop()
\* calls trainStep() no more until the user starts auto-training again.
ThmC19_StopIsEffective ==
  [][ /\ UserStops => /\ model.upd = 0
                      /\ model' = model
                      /\ eventLoop'.task = NoTask
      /\ LoopIssuesTrainStep => ~seen.userStopped ]_vars

\* A loop() registered before the user's Stop is called after it, the model
\* having been trained.
WitC19_FrameAfterStop ==
  /\ seen.userStopped
  /\ eventLoop.task.kind = "loop"
  /\ eventLoop.task.pc = "check"
  /\ model.step >= 1

\* loop() is through with the result of its doStep().
LoopReturns ==
  /\ eventLoop.task.kind = "loop"
  /\ eventLoop.task.pc = "returned"
  /\ eventLoop'.task = NoTask

\* C20: with a target loss selected, loop() stops at the first step whose loss
\* is at most the target: it clears the auto-train flag, records the reason,
\* registers no further frame and calls trainStep() no more until auto-training
\* is started again; with target "never" it registers itself again after every
\* step, and auto-training makes one step per animation frame.
CexC20_StopsAtTargetElseOneStepPerFrame ==
  [][ /\ ( /\ LoopReturns
           /\ ui.targetLossRef # Never
           /\ lossReached(eventLoop.task.loss, ui.targetLossRef) )
         => /\ ~ui'.autoTrainRef
            /\ ~ui'.autoTrain
            /\ ui'.stoppedReason = ui.targetLossRef
            /\ eventLoop'.raf = eventLoop.raf
      /\ (LoopReturns /\ ui.targetLossRef = Never)
         => eventLoop'.raf = eventLoop.raf + 1
      /\ LoopIssuesTrainStep => ~seen.targetReached
      /\ seen'.frameSteps <= 1 ]_vars

\* The timeout of a Step click goes on to its next doStep().
BatchIssuesTrainStep ==
  /\ eventLoop.task.kind = "step"
  /\ eventLoop.task.pc \in {"for", "returned"}
  /\ eventLoop'.task.pc = "forward"

\* A trainStep() call raises.
Raises == eventLoop.task.pc = "forward" /\ eventLoop'.task = NoTask

\* C21: a trainStep() that raises ends the callback that made the call, which
\* registers no timeout and no frame; after a failed step of a Step batch the
\* batch makes no further call, and after a failed step of the auto-train loop
\* no loop() makes a call until the user presses Auto again.
CexC21_FailedStepIsNotResumed ==
  [][ /\ Raises => /\ eventLoop'.timers = eventLoop.timers
                   /\ eventLoop'.raf = eventLoop.raf
                   /\ model' = model
      /\ BatchIssuesTrainStep => ~seen.batchFailed
      /\ LoopIssuesTrainStep => ~seen.loopFailed ]_vars

\* The loop() callbacks that are registered for a frame, waiting in the
\* running frame's list, or running.
LoopsAlive ==
  eventLoop.raf + eventLoop.frameLeft
    + (IF eventLoop.task.kind = "loop" THEN 1 ELSE 0)

\* C28: whatever the user clicks on Auto/Stop and whenever, at most one loop()
\* callback is registered or running, and at most one trainStep() is called by
\* loop() in one animation frame.
CexC28_AtMostOneLoop ==
  /\ LoopsAlive <= 1
  /\ seen.frameSteps <= 1

\* C29: in every order of the clicks and of the timeouts and frames, the
\* timeout of a Step click calls trainStep() only while auto-training is off.
CexC29_StepBatchNotDuringAuto ==
  [][ BatchIssuesTrainStep => ~(ui.autoTrainRef \/ ui.autoTrain) ]_vars

InitUI ==
  /\ UIInit
  /\ ADIdle
  /\ TokIdle
  /\ RngIdle
  /\ step = 0
  /\ ncalls = 0
  /\ ntrain = 0
  /\ gptCall = NoCall
  /\ inst = <<>>

SpecUI == InitUI /\ [][UINext]_vars

====
